---- MODULE Spec2Model ----
(***************************************************************************)
(* Model of libmeshctrl (src/unnamed/part_002, v2.2.1): the Session's      *)
(* correlated request/response multiplexer, its readiness future, the      *)
(* close/error fan-out, the tunnel factories with their cache, the         *)
(* two-phase relay handshake of _Tunnel, the event filter _compare_obj     *)
(* and the listeners of listen_to_events, the request queue and the        *)
(* transfers of _Files, and the buffer of _Shell with read, expect and     *)
(* _SmartShell.send_command.                                               *)
(*                                                                         *)
(* The program is single threaded: every action below is one event-loop    *)
(* callback (a socket event handler, a timer, a caller's call) or one      *)
(* promise continuation (the code after a .then / an await).               *)
(***************************************************************************)
EXTENDS Integers, Sequences, FiniteSets, TLC

\* ------------------------------------------------------------------ bounds
\* Stand-in for the modulus 2**32-1 of _get_command_id, small enough that
\* the counter wraps inside the model.
CmdMod == 2
\* Number of _send_command / _send_command_no_response_id calls a caller makes.
MaxReqs == 3
\* Number of on_close callbacks a caller registers.
MaxCloseCbs == 1
\* Number of tunnel factory calls (file_explorer / shell / smart_shell).
MaxCalls == 2
\* Number of requests issued on one files tunnel.
MaxFileReqs == 3
\* Stand-in for the chunk size 65564 of the upload chunker (the frame buffer
\* of 65565 bytes is one byte longer).
ChunkSize == 2
\* Longest source of an upload, in bytes.
MaxSourceLen == 4
\* Longest payload of a download data frame, and the number of data frames
\* of a download.
MaxPayloadLen == 2
MaxFrames == 3
\* Number of read calls on one shell, and the most bytes its buffer holds.
MaxReads == 1
MaxBufLen == 2
\* The most bytes of text the buffer of a shell holds while expect is used.
MaxTextLen == 3
\* The most entries of a list in a filter or an event.
MaxListLen == 2
\* The most listeners listen_to_events installs, and the most frames one
\* of them is called with.
MaxSubs == 2
MaxEvents == 2
\* The length of the header of a download data frame.
HeaderLen == 4

VARIABLES
    sock,          \* state of the session's ws socket (this._sock)
    alive,         \* this.alive
    initialized,   \* this.initialized (a _Deferred)
    socket_open,   \* this._socket_open (a _Deferred)
    command_id,    \* this._command_id
    inflight,      \* this._inflight
    eventer,       \* this._eventer: the once-listeners of pending requests, in registration order
    reqs,          \* the promises handed out by _send_command / _send_command_no_response_id
    sent,          \* the frames written to the session socket, in order
    got_userinfo,  \* whether a userinfo frame has been received
    close_cbs,     \* the on_close listeners: how often each was called
    tunnels,       \* every _Tunnel object built so far
    calls,         \* the tunnel factory calls made so far
    file_tunnels,  \* this._file_tunnels
    shell_tunnels, \* this._shell_tunnels
    smart_shell_tunnels, \* this._smart_shell_tunnels
    filter,        \* listen_to_events: the filter object
    data,          \* listen_to_events: the event handed to the filter
    matched,       \* listen_to_events: "none" before the event, then whether f was called
    subs,          \* the listeners installed by listen_to_events, in registration order
    emitted,       \* the event names _receive_message emitted the latest frame under, in order
    files_sock,    \* _Files: state of the relay socket (this._sock)
    files_alive,   \* _Files: this.alive
    request_id,    \* _Files: this._request_id
    request_queue, \* _Files: this._request_queue (indices into freqs, oldest first)
    freqs,         \* _Files: every request issued on the tunnel, in issue order
    files_sent,    \* _Files: the frames written to the relay socket, in order
    files_eventer, \* _Files: this._eventer, the once-listeners of dispatched transfers
    files_listeners, \* _Files: the server-event listener pairs of mkdir/rm/rename still registered
    uncaught,      \* an exception left a handler uncaught (the process ends)
    shell_sock,    \* _Shell: state of the relay socket (this._sock.readyState)
    shell_buffer,  \* _Shell: this._buffer
    reads          \* _Shell: the read() calls made so far

sessionVars == <<sock, alive, initialized, socket_open, command_id, inflight,
                 eventer, reqs, sent, got_userinfo, close_cbs>>
tunnelVars == <<tunnels, calls, file_tunnels, shell_tunnels, smart_shell_tunnels>>
filterVars == <<filter, data, matched, subs, emitted>>
filesVars == <<files_sock, files_alive, request_id, request_queue, freqs,
               files_sent, files_eventer, files_listeners, uncaught>>
shellVars == <<shell_sock, shell_buffer, reads>>
vars == <<sessionVars, tunnelVars, filterVars, filesVars, shellVars>>

\* ------------------------------------------------------------ identifiers
\* A request id is the string `meshctrl_${name}_${n}`; it is modelled as the
\* pair (name, n).  Events emitted under an action name use the same shape
\* with num = -1: no action name of the protocol has the form of an id.
MkId(name, n) == [name |-> name, num |-> n]
NoId == MkId("", -1)
ActKey(action) == MkId(action, -1)

CmdNames == {"x", "initialize_shell"}
Ids == {MkId(name, n) : name \in CmdNames, n \in 0..(CmdMod - 1)}

\* ----------------------------------------------------------------- frames
\* A parsed inbound frame: its action, the echoed responseid and tag (NoId
\* when the field is absent) and its result field ("" when absent).
MkFrame(action, responseid, tag, result) ==
    [action |-> action, responseid |-> responseid, tag |-> tag, result |-> result]
NoFrame == MkFrame("", NoId, NoId, "")

\* --------------------------------------------------------------- promises
\* A promise / _Deferred: pending, resolved with a frame, or rejected with
\* an error (the name of the error class or the rejection value).
Pending == [st |-> "pending", frame |-> NoFrame, err |-> ""]
Resolved(f) == [st |-> "resolved", frame |-> f, err |-> ""]
Rejected(e) == [st |-> "rejected", frame |-> NoFrame, err |-> e]
RejectedWith(f) == [st |-> "rejected", frame |-> f, err |-> "payload"]
\* resolve()/reject() on a promise: the first settlement wins.
Settle(p, outcome) == IF p.st = "pending" THEN outcome ELSE p

\* The errors the library raises.
SocketClosed == "SocketError: Socket Closed"
SocketErrored == "SocketError: Socket Error"
TimedOut == "TimeoutError"
IsSocketError(e) == e \in {SocketClosed, SocketErrored}
\* The code of a transport error (err.code) and the reason of a close
\* before readiness.
ErrCode == "ECONNRESET"
ClosedReason == "Closed"

\* --------------------------------------------------------------- requests
\* One call of _send_command ("cmd") or _send_command_no_response_id
\* ("nores"): key is the event name its listener waits on (NoId when the
\* call threw before registering one), p the inner promise, out the promise
\* returned to the caller (p itself, or the race of p with the timer),
\* timer the state of its setTimeout, calls how often its listener ran,
\* owner the tunnel whose handshake issued it (0: the caller).
MkReq(kind, key, timer, p, owner) ==
    [kind |-> kind, key |-> key, timer |-> timer, p |-> p, out |-> p,
     calls |-> 0, owner |-> owner]

\* The listener installed by _send_command / _send_command_no_response_id:
\* resolve(data), or reject(data) when data is an Error.  The returned
\* promise follows p unless the timer of Promise.race won before.
DeliverMutantOverwrite(r, outcome) ==
    [r EXCEPT !.p = Settle(@, outcome), !.out = outcome, !.calls = @ + 1]
Deliver(r, outcome) ==
    [r EXCEPT !.p = Settle(@, outcome),
              !.out = IF r.p.st = "pending" THEN Settle(@, outcome) ELSE @,
              !.calls = @ + 1]

\* EventEmitter.once: a listener is removed when its event is emitted.
Once(keys) == SelectSeq(eventer, LAMBDA l : l.key \notin keys)

\* EventEmitter.emit of `outcome` under every event name in keys: every
\* listener registered under such a name is called (and removed).
Called(keys) == {eventer[i].req : i \in {j \in 1..Len(eventer) : eventer[j].key \in keys}}
EmitMutantFirstOnly(keys, outcome) ==
    LET hit == {j \in 1..Len(eventer) : eventer[j].key \in keys}
        first == {j \in hit : \A k \in hit : j <= k}
    IN  /\ reqs' = [i \in DOMAIN reqs |->
                       IF i \in {eventer[j].req : j \in first}
                       THEN Deliver(reqs[i], outcome) ELSE reqs[i]]
        /\ eventer' = [j \in 1..(Len(eventer) - Cardinality(first)) |->
                           IF \E k \in first : k <= j THEN eventer[j + 1] ELSE eventer[j]]
        /\ inflight' = inflight \ {eventer[j].key : j \in {k \in first : reqs[eventer[k].req].kind = "cmd"}}
EmitMutantNoDelete(keys, outcome) ==
    /\ reqs' = [i \in DOMAIN reqs |->
                   IF i \in Called(keys) THEN Deliver(reqs[i], outcome) ELSE reqs[i]]
    /\ eventer' = Once(keys)
    /\ inflight' = inflight
Emit(keys, outcome) ==
    /\ reqs' = [i \in DOMAIN reqs |->
                   IF i \in Called(keys) THEN Deliver(reqs[i], outcome) ELSE reqs[i]]
    /\ eventer' = Once(keys)
    \* the _send_command listener: this._inflight.delete(id)
    /\ inflight' = inflight \ {reqs[i].key : i \in {j \in Called(keys) : reqs[j].kind = "cmd"}}

\* _get_command_id: the counter advances by one and wraps.
get_command_id(c) == (c + 1) % CmdMod

\* The probing loop of _send_command:
\*   while (this._inflight.has(id = `meshctrl_${name}_${this._get_command_id()}`)){}
\* n bounds the unrolling: after CmdMod probes every candidate was tried.
RECURSIVE probe(_, _, _)
probeMutantNoSkip(name, c, n) == get_command_id(c)
probe(name, c, n) ==
    LET c1 == get_command_id(c)
    IN  IF MkId(name, c1) \in inflight /\ n > 0 THEN probe(name, c1, n - 1) ELSE c1

\* The loop ends only if some id of that name is free.
ProbeEnds(name) == \E n \in 0..(CmdMod - 1) : MkId(name, n) \notin inflight

\* The frame a request writes: ws.send outside the OPEN state writes nothing.
Written(f) == IF sock = "open" THEN Append(sent, f) ELSE sent

\* ------------------------------------------------------ promise reactions
\* The code after a .then or an await runs as a promise reaction: when the
\* handler that settled the promise has returned and before the event loop
\* handles the next socket event or timer.
CookieReaction(t) ==
    /\ tunnels[t].st = "AwaitingCookie"
    /\ reqs[tunnels[t].cookie_req].out.st = "resolved"
RelayReaction(t) ==
    /\ tunnels[t].st = "AwaitingRelayAck"
    /\ reqs[tunnels[t].relay_req].out.st = "resolved"
\* The reaction the _Deferred constructor attaches to its promise:
\*   this.promise.then(() => { this.resolved = true }, ...)
\* It was attached before any `await t.initialized` and runs before it.
FlagReaction(t) ==
    /\ tunnels[t].initialized.st = "resolved"
    /\ ~tunnels[t].resolved
ResumeReaction(c) ==
    /\ calls[c].st = "awaiting"
    /\ tunnels[calls[c].tunnel].initialized.st # "pending"
    /\ ~FlagReaction(calls[c].tunnel)
ReactionsPending ==
    \/ \E t \in DOMAIN tunnels : CookieReaction(t) \/ RelayReaction(t) \/ FlagReaction(t)
    \/ \E c \in DOMAIN calls : ResumeReaction(c)
\* The event loop is free to handle the next event.
Idle == ~ReactionsPending

\* ------------------------------------------------ Session: sending requests
\* async _send_command(data, name, timeout): the synchronous body.
send_command_body(name, action, timed, owner) ==
    IF ~alive
    THEN /\ reqs' = Append(reqs, MkReq("cmd", NoId, "none", Rejected(SocketClosed), owner))
         /\ UNCHANGED <<command_id, inflight, eventer, sent>>
    ELSE /\ ProbeEnds(name)
         /\ LET n == probe(name, command_id, CmdMod)
                id == MkId(name, n)
            IN  /\ command_id' = n
                /\ inflight' = inflight \cup {id}
                /\ eventer' = Append(eventer, [key |-> id, req |-> Len(reqs) + 1])
                /\ reqs' = Append(reqs, MkReq("cmd", id, IF timed THEN "armed" ELSE "none", Pending, owner))
                /\ sent' = Written(MkFrame(action, id, id, ""))

\* async _send_command_no_response_id(data, timeout): the synchronous body.
send_command_no_response_id_body(action, timed, owner) ==
    IF ~alive
    THEN /\ reqs' = Append(reqs, MkReq("nores", NoId, "none", Rejected(SocketClosed), owner))
         /\ UNCHANGED <<command_id, inflight, eventer, sent>>
    ELSE /\ eventer' = Append(eventer, [key |-> ActKey(action), req |-> Len(reqs) + 1])
         /\ reqs' = Append(reqs, MkReq("nores", ActKey(action), IF timed THEN "armed" ELSE "none", Pending, owner))
         /\ sent' = Written(MkFrame(action, NoId, NoId, ""))
         /\ UNCHANGED <<command_id, inflight>>

\* A caller's correlated request.
send_command(timed) ==
    /\ Len(reqs) < MaxReqs
    /\ send_command_body("x", "nodes", timed, 0)
    /\ UNCHANGED <<sock, alive, initialized, socket_open, got_userinfo, close_cbs>>
    /\ UNCHANGED <<tunnelVars, filterVars, filesVars, shellVars>>

\* A caller's unnamespaced request.
send_command_no_response_id(timed) ==
    /\ Len(reqs) < MaxReqs
    /\ send_command_no_response_id_body("nodes", timed, 0)
    /\ UNCHANGED <<sock, alive, initialized, socket_open, got_userinfo, close_cbs>>
    /\ UNCHANGED <<tunnelVars, filterVars, filesVars, shellVars>>

\* The timer of Promise.race([p, new Promise((_r, rej) => setTimeout(rej, ...))]).
timer_fire(i) ==
    /\ Idle
    /\ i \in DOMAIN reqs
    /\ reqs[i].timer = "armed"
    /\ reqs' = [reqs EXCEPT ![i].timer = "fired", ![i].out = Settle(@, Rejected(TimedOut))]
    /\ UNCHANGED <<sock, alive, initialized, socket_open, command_id, inflight,
                   eventer, sent, got_userinfo, close_cbs>>
    /\ UNCHANGED <<tunnelVars, filterVars, filesVars, shellVars>>

\* on_close(f)
on_close ==
    /\ Len(close_cbs) < MaxCloseCbs
    /\ close_cbs' = Append(close_cbs, 0)
    /\ UNCHANGED <<sock, alive, initialized, socket_open, command_id, inflight,
                   eventer, reqs, sent, got_userinfo>>
    /\ UNCHANGED <<tunnelVars, filterVars, filesVars, shellVars>>

\* ---------------------------------------------------------------- tunnels
Nodes == {"n1", "n2"}
\* The regex of a smart shell, part of its cache key `${nodeid}${regex}`.
Regexes == {"r1"}
TunnelKinds == {"files", "shell", "smart"}

\* A _Tunnel (_Files or _Shell) object.  st is the position of _initialize:
\*   "AwaitingCookie"   the authcookie request was issued
\*   "AwaitingRelayAck" the relay-prepare request was issued
\*   "Rejected"         the relay-prepare reply was not "OK"
\*   "SocketCreated"    this._sock = new ws(this.url, options) was executed
\* sock is the state of the secondary socket ("none": this._sock undefined),
\* resolved the flag this.initialized.resolved of the _Deferred, echoes the
\* number of times the protocol was written to the secondary socket.
MkTunnel(protocol, node, cookie_req) ==
    [protocol |-> protocol, node_id |-> node, st |-> "AwaitingCookie",
     cookie_req |-> cookie_req, relay_req |-> 0,
     sock |-> "none", socket_open |-> Pending, initialized |-> Pending,
     alive |-> FALSE, recorded |-> "null", echoes |-> 0, resolved |-> FALSE]

\* PROTOCOL = _make_enum(["terminal", "", "", "", "files"], {start_value: 0x1})
ProtocolTerminal == 1
ProtocolFiles == 5
ProtocolOf(kind) == IF kind = "files" THEN ProtocolFiles ELSE ProtocolTerminal

\* _Tunnel.close / _Shell.close / _SmartShell.close: this._sock.close().
\* A socket that is closing or closed stays as it is.
tunnel_close_mutant(t) == t
tunnel_close(t) == [t EXCEPT !.sock = IF @ \in {"connecting", "open"} THEN "closing" ELSE @]

\* The tunnels held in the three registries (0: no entry under that key).
Registered ==
    ({file_tunnels[n] : n \in Nodes} \cup {shell_tunnels[n] : n \in Nodes}
        \cup {smart_shell_tunnels[k] : k \in Nodes \X Regexes}) \ {0}

\* The loop of the session's close handler over the three registries.
CloseRegistered ==
    [i \in DOMAIN tunnels |-> IF i \in Registered THEN tunnel_close(tunnels[i]) ELSE tunnels[i]]

\* ------------------------------------------------- Session: socket events
\* this._sock.on("open", ...)
sock_on_open ==
    /\ Idle
    /\ sock = "connecting"
    /\ sock' = "open"
    /\ socket_open' = Settle(socket_open, Resolved(NoFrame))
    /\ alive' = TRUE
    /\ UNCHANGED <<initialized, command_id, inflight, eventer, reqs, sent,
                   got_userinfo, close_cbs>>
    /\ UNCHANGED <<tunnelVars, filterVars, filesVars, shellVars>>

\* this._eventer.emit("close", err): every on_close listener is called.
NotifyClose == [i \in DOMAIN close_cbs |-> close_cbs[i] + 1]

\* The rejection of the readiness future by the close handler:
\*   if (!this.initialized.resolved) { this.initialized.reject("Closed") }
CloseInitialized == Settle(initialized, Rejected(ClosedReason))

\* this._sock.on('close', ...)
sock_on_close ==
    /\ Idle
    /\ sock \in {"open", "closing", "errored"}
    /\ sock' = "closed"
    /\ initialized' = CloseInitialized
    /\ alive' = FALSE
    /\ Emit(inflight, Rejected(SocketClosed))
    /\ close_cbs' = NotifyClose
    /\ tunnels' = CloseRegistered
    /\ UNCHANGED <<socket_open, command_id, sent, got_userinfo>>
    /\ UNCHANGED <<calls, file_tunnels, shell_tunnels, smart_shell_tunnels, filterVars, filesVars, shellVars>>

\* this._sock.on('error', ...): ws emits 'close' after it.
sock_on_error ==
    /\ Idle
    /\ sock \in {"connecting", "open", "closing"}
    /\ sock' = "errored"
    /\ socket_open' = Settle(socket_open, Rejected(ErrCode))
    /\ initialized' = Settle(initialized, Rejected(ErrCode))
    /\ alive' = FALSE
    /\ Emit(inflight, Rejected(SocketErrored))
    /\ close_cbs' = NotifyClose
    /\ UNCHANGED <<command_id, sent, got_userinfo>>
    /\ UNCHANGED <<tunnelVars, filterVars, filesVars, shellVars>>

\* Session.close(): this._sock.close() on an open socket.
close ==
    /\ sock = "open"
    /\ sock' = "closing"
    /\ UNCHANGED <<alive, initialized, socket_open, command_id, inflight,
                   eventer, reqs, sent, got_userinfo, close_cbs>>
    /\ UNCHANGED <<tunnelVars, filterVars, filesVars, shellVars>>

\* ------------------------------------------------------------ event filter
\* A JSON value: a scalar leaf (named by its literal), an object (a function
\* from its keys to values), or undefined (what reading a missing property,
\* or any property of a scalar, gives).
Leaf(x) == [k |-> "leaf", v |-> x]
Obj(f) == [k |-> "obj", v |-> f]
Undefined == [k |-> "undef", v |-> ""]
IsObj(x) == x.k = "obj"
\* An Array: a function from its indices, which as property names are the
\* strings "0", "1", ...; and a Set, its elements in insertion order (a
\* filter may hold one, a parsed frame never does).
IndexKeys == <<"0", "1", "2">>
Arr(s) == [k |-> "arr", v |-> [key \in {IndexKeys[i] : i \in 1..Len(s)} |->
                                  s[CHOOSE i \in 1..Len(s) : IndexKeys[i] = key]]]
SetVal(s) == [k |-> "set", v |-> Arr(s).v]
\* val instanceof Object: true of objects, of Arrays and of Sets.
InstanceOfObject(x) == x.k \in {"obj", "arr", "set"}
\* The keys of Object.entries(x): the own enumerable properties, which an
\* object and an Array have and a Set has not.
Entries(x) == IF x.k \in {"obj", "arr"} THEN DOMAIN x.v ELSE {}

\* obj[key]: undefined for a missing property and for any property of a
\* number, a boolean or (the keys used being no character indices) a string.
Get(x, key) == IF x.k \in {"obj", "arr"} /\ key \in DOMAIN x.v THEN x.v[key] ELSE Undefined

\* !x is true of undefined, 0, false, null and ''.
FalsyLeaves == {"0", "false", "null", "''"}
Falsy(x) == x.k = "undef" \/ (x.k = "leaf" /\ x.v \in FalsyLeaves)

\* a === b for a scalar b
StrictEq(a, b) == a.k = "leaf" /\ b.k = "leaf" /\ a.v = b.v

\* _compare_obj(obj1, obj2): the loop over Object.entries(obj1) returns
\* false at the first entry that fails.  The branch `val instanceof Object`
\* comes first and takes Arrays and Sets too: the branches written for
\* Set and Array after it are never reached.
RECURSIVE compare_obj(_, _)
compare_obj(obj1, obj2) ==
    \A key \in Entries(obj1) :
        LET val == obj1.v[key]
        IN  /\ ~Falsy(Get(obj2, key))
            /\ IF InstanceOfObject(val)
               THEN compare_obj(val, Get(obj2, key))
               ELSE StrictEq(Get(obj2, key), val)

\* The values the filter is tried on: objects of depth two over the keys
\* of the events the library filters.
Leaves == {"ugrp", "node", "1"} \cup FalsyLeaves
PartialFns(keys, vals) == UNION {[d -> vals] : d \in SUBSET keys}
InnerObjs == {Obj(f) : f \in PartialFns({"etype", "other"}, {Leaf(x) : x \in Leaves})}
TopObjs == {Obj(f) : f \in PartialFns({"event"}, {Leaf(x) : x \in Leaves} \cup InnerObjs)}
NoFilter == Leaf("null")

\* The listener f2 that listen_to_events(f, filter) installs, called with
\* an event: f is called unless a filter is given and does not match.
listen_to_events ==
    /\ matched = "none"
    /\ matched' = IF filter = NoFilter \/ compare_obj(filter, data) THEN "called" ELSE "skipped"
    /\ UNCHANGED <<filter, data, subs, emitted, sessionVars, tunnelVars, filesVars, shellVars>>

\* ------------------------------------------------------------- event bus
\* The parsed frame as the object a filter is tried on.
FrameObj(f) ==
    Obj([key \in {"action"} \cup (IF f.result = "" THEN {} ELSE {"result"}) |->
            Leaf(IF key = "action" THEN f.action ELSE f.result)])

\* A listener f2 of listen_to_events(f, filter): on while it is registered
\* under "server_event", calls the frames f was called with, in order.
MkSub(flt) == [filter |-> flt, on |-> TRUE, calls |-> <<>>]

\* f2(data): f is called unless a filter is given and does not match.
F2(sub, f) ==
    IF sub.filter = NoFilter \/ compare_obj(sub.filter, FrameObj(f))
    THEN [sub EXCEPT !.calls = Append(@, f)]
    ELSE sub

\* this._eventer.emit("server_event", data): every listener registered
\* under the name is called, in registration order.
EmitServerEventMutantStopped(f) == [i \in DOMAIN subs |-> F2(subs[i], f)]
EmitServerEvent(f) == [i \in DOMAIN subs |-> IF subs[i].on THEN F2(subs[i], f) ELSE subs[i]]

\* listen_to_events(f, filter): this._eventer.on("server_event", f2)
listen(flt) ==
    /\ Len(subs) < MaxSubs
    /\ subs' = Append(subs, MkSub(flt))
    /\ UNCHANGED <<filter, data, matched, emitted, sessionVars, tunnelVars, filesVars, shellVars>>

\* stop_listening_to_events(f2): this._eventer.off("server_event", f2)
stop_listening_to_events(i) ==
    /\ i \in DOMAIN subs
    /\ subs[i].on
    /\ subs' = [subs EXCEPT ![i].on = FALSE]
    /\ UNCHANGED <<filter, data, matched, emitted, sessionVars, tunnelVars, filesVars, shellVars>>

\* The frames broadcast to the listeners of listen_to_events.
PushActions == {"event", "msg", "interuser"}
IsPush(f) == f.action \in PushActions
\* The frames _receive_message takes for itself and returns on.
Handled(f) == f.action \in {"serverinfo", "userinfo"}

\* The event name _receive_message emits a frame under:
\*   data.responseid || data.tag, else data.action
DeliveryKeyMutantTagFirst(f) ==
    IF f.tag # NoId THEN f.tag
    ELSE IF f.responseid # NoId THEN f.responseid
    ELSE ActKey(f.action)
DeliveryKey(f) ==
    IF f.responseid # NoId THEN f.responseid
    ELSE IF f.tag # NoId THEN f.tag
    ELSE ActKey(f.action)
\* The event names _receive_message emits a parsed frame under, in order:
\* "raw" for every frame; nothing more for serverinfo and userinfo;
\* "server_event" for event, msg and interuser; then the responseid or
\* tag, or else (the else of that test alone) the action.
TopicsMutantElseOfBoth(f) ==
    <<ActKey("raw")>> \o
        (IF Handled(f) THEN <<>>
         ELSE IF IsPush(f) THEN <<ActKey("server_event")>> \o
                  (IF f.responseid # NoId \/ f.tag # NoId THEN <<DeliveryKey(f)>> ELSE <<>>)
         ELSE <<DeliveryKey(f)>>)
Topics(f) ==
    <<ActKey("raw")>> \o
        (IF Handled(f) THEN <<>>
         ELSE (IF IsPush(f) THEN <<ActKey("server_event")>> ELSE <<>>) \o <<DeliveryKey(f)>>)

\* The resolution of the readiness future by a userinfo frame.
UserinfoInitializedMutant == initialized
UserinfoInitialized == Settle(initialized, Resolved(NoFrame))

\* _receive_message(raw_data) for a frame that parses as JSON.
receive_message(f) ==
    /\ Idle
    /\ sock \in {"open", "closing"}
    /\ emitted' = Topics(f)
    /\ IF f.action = "serverinfo"
       THEN UNCHANGED <<initialized, got_userinfo, reqs, eventer, inflight, subs>>
       ELSE IF f.action = "userinfo"
       THEN /\ initialized' = UserinfoInitialized
            /\ got_userinfo' = TRUE
            /\ UNCHANGED <<reqs, eventer, inflight, subs>>
       ELSE /\ subs' = IF IsPush(f) THEN EmitServerEvent(f) ELSE subs
            /\ Emit({DeliveryKey(f)}, Resolved(f))
            /\ UNCHANGED <<initialized, got_userinfo>>
    /\ UNCHANGED <<sock, alive, socket_open, command_id, sent, close_cbs>>
    /\ UNCHANGED <<filter, data, matched, tunnelVars, filesVars, shellVars>>

\* --------------------------------------------------------- tunnel factories
\* One call of file_explorer / shell / smart_shell: st is "awaiting" while
\* it awaits _Files.create / _Shell.create, then "returned" or "threw";
\* tunnel is the tunnel it returns (or waits for), hit whether it took the
\* cached tunnel.
MkCall(kind, node, regex, unique, st, tunnel, hit) ==
    [kind |-> kind, node |-> node, regex |-> regex, unique |-> unique,
     st |-> st, tunnel |-> tunnel, hit |-> hit]

\* The cache entry a call looks at (0: none).
Cached(kind, node, regex) ==
    IF kind = "files" THEN file_tunnels[node]
    ELSE IF kind = "shell" THEN shell_tunnels[node]
    ELSE smart_shell_tunnels[<<node, regex>>]

\* if (!this._file_tunnels[nodeid] || !this._file_tunnels[nodeid].alive)
ReuseMutantNoAliveCheck(kind, node, regex) == Cached(kind, node, regex) # 0
Reuse(kind, node, regex) ==
    /\ Cached(kind, node, regex) # 0
    /\ tunnels[Cached(kind, node, regex)].alive

\* file_explorer(nodeid, unique), shell(nodeid, unique),
\* smart_shell(nodeid, regex, unique) up to their await: either the cached
\* tunnel is returned, or a tunnel is constructed, whose constructor runs
\* _initialize up to the authcookie request.
factory_call(kind, node, regex, unique) ==
    /\ Len(calls) < MaxCalls
    /\ IF ~unique /\ Reuse(kind, node, regex)
       THEN /\ calls' = Append(calls, MkCall(kind, node, regex, unique, "returned",
                                             Cached(kind, node, regex), TRUE))
            /\ UNCHANGED <<tunnels, command_id, inflight, eventer, reqs, sent>>
       ELSE /\ send_command_no_response_id_body("authcookie", FALSE, Len(tunnels) + 1)
            /\ tunnels' = Append(tunnels, MkTunnel(ProtocolOf(kind), node, Len(reqs) + 1))
            /\ calls' = Append(calls, MkCall(kind, node, regex, unique, "awaiting",
                                             Len(tunnels) + 1, FALSE))
    /\ UNCHANGED <<sock, alive, initialized, socket_open, got_userinfo, close_cbs>>
    /\ UNCHANGED <<file_tunnels, shell_tunnels, smart_shell_tunnels, filterVars, filesVars, shellVars>>

\* this._file_tunnels[nodeid] = ... (and the like) of a non-unique call.
Store(c) ==
    IF calls[c].unique
    THEN UNCHANGED <<file_tunnels, shell_tunnels, smart_shell_tunnels>>
    ELSE IF calls[c].kind = "files"
    THEN /\ file_tunnels' = [file_tunnels EXCEPT ![calls[c].node] = calls[c].tunnel]
         /\ UNCHANGED <<shell_tunnels, smart_shell_tunnels>>
    ELSE IF calls[c].kind = "shell"
    THEN /\ shell_tunnels' = [shell_tunnels EXCEPT ![calls[c].node] = calls[c].tunnel]
         /\ UNCHANGED <<file_tunnels, smart_shell_tunnels>>
    ELSE /\ smart_shell_tunnels' =
                [smart_shell_tunnels EXCEPT ![<<calls[c].node, calls[c].regex>>] = calls[c].tunnel]
         /\ UNCHANGED <<file_tunnels, shell_tunnels>>

\* The factory after `await _Files.create(...)`: create returns the tunnel
\* when its initialized resolves and throws when it rejects.
factory_resume(c) ==
    /\ c \in DOMAIN calls
    /\ ResumeReaction(c)
    /\ IF tunnels[calls[c].tunnel].initialized.st = "resolved"
       THEN /\ calls' = [calls EXCEPT ![c].st = "returned"]
            /\ Store(c)
       ELSE /\ calls' = [calls EXCEPT ![c].st = "threw"]
            /\ UNCHANGED <<file_tunnels, shell_tunnels, smart_shell_tunnels>>
    /\ UNCHANGED <<sessionVars, tunnels, filterVars, filesVars, shellVars>>

\* ------------------------------------------------- _Tunnel._initialize
\* The continuation of the authcookie request: the relay-prepare request
\*   this._session._send_command({action: 'msg', type: 'tunnel', ...}, "initialize_shell")
tunnel_cookie_then(t) ==
    /\ t \in DOMAIN tunnels
    /\ CookieReaction(t)
    /\ send_command_body("initialize_shell", "msg", FALSE, t)
    /\ tunnels' = [tunnels EXCEPT ![t].st = "AwaitingRelayAck", ![t].relay_req = Len(reqs) + 1]
    /\ UNCHANGED <<sock, alive, initialized, socket_open, got_userinfo, close_cbs>>
    /\ UNCHANGED <<calls, file_tunnels, shell_tunnels, smart_shell_tunnels, filterVars, filesVars, shellVars>>

\* if (data2.result !== "OK")
RelayAckedMutantAnyResult(data2) == TRUE
RelayAcked(data2) == data2.result = "OK"

\* The continuation of the relay-prepare request.
tunnel_relay_then(t) ==
    /\ t \in DOMAIN tunnels
    /\ RelayReaction(t)
    /\ LET data2 == reqs[tunnels[t].relay_req].out.frame
       IN  IF ~RelayAcked(data2)
           THEN tunnels' = [tunnels EXCEPT
                               ![t].st = "Rejected",
                               ![t].socket_open = Settle(@, RejectedWith(data2)),
                               ![t].initialized = Settle(@, RejectedWith(data2))]
           ELSE tunnels' = [tunnels EXCEPT ![t].st = "SocketCreated", ![t].sock = "connecting"]
    /\ UNCHANGED <<sessionVars, calls, file_tunnels, shell_tunnels, smart_shell_tunnels, filterVars, filesVars, shellVars>>

\* The secondary socket: this._sock.on("open", ...)
tunnel_sock_on_open(t) ==
    /\ Idle
    /\ t \in DOMAIN tunnels
    /\ tunnels[t].sock = "connecting"
    /\ tunnels' = [tunnels EXCEPT ![t].sock = "open",
                                  ![t].socket_open = Settle(@, Resolved(NoFrame))]
    /\ UNCHANGED <<sessionVars, calls, file_tunnels, shell_tunnels, smart_shell_tunnels, filterVars, filesVars, shellVars>>

\* The secondary socket: this._sock.on('close', ...)
tunnel_sock_on_close(t) ==
    /\ Idle
    /\ t \in DOMAIN tunnels
    /\ tunnels[t].sock \in {"open", "closing", "errored"}
    /\ tunnels' = [tunnels EXCEPT ![t].sock = "closed", ![t].alive = FALSE]
    /\ UNCHANGED <<sessionVars, calls, file_tunnels, shell_tunnels, smart_shell_tunnels, filterVars, filesVars, shellVars>>

\* The secondary socket: this._sock.on('error', ...)
tunnel_sock_on_error(t) ==
    /\ Idle
    /\ t \in DOMAIN tunnels
    /\ tunnels[t].sock \in {"connecting", "open", "closing"}
    /\ tunnels' = [tunnels EXCEPT ![t].sock = "errored",
                                  ![t].socket_open = Settle(@, Rejected(ErrCode)),
                                  ![t].alive = FALSE]
    /\ UNCHANGED <<sessionVars, calls, file_tunnels, shell_tunnels, smart_shell_tunnels, filterVars, filesVars, shellVars>>

\* The reaction that sets this.initialized.resolved of a tunnel.
tunnel_initialized_then(t) ==
    /\ t \in DOMAIN tunnels
    /\ FlagReaction(t)
    /\ tunnels' = [tunnels EXCEPT ![t].resolved = TRUE]
    /\ UNCHANGED <<sessionVars, calls, file_tunnels, shell_tunnels, smart_shell_tunnels, filterVars, filesVars, shellVars>>

\* _Files._receive_message / _Shell._receive_message, the branch taken
\* while this.initialized.resolved is false: the frame is the recording
\* flag.
FirstFrame(tn, raw) ==
    [tn EXCEPT !.recorded = IF raw = "cr" THEN "true" ELSE "false",
               !.echoes = IF tn.sock = "open" THEN @ + 1 ELSE @,
               !.alive = TRUE,
               !.initialized = Settle(@, Resolved(NoFrame))]

\* The first frame on the secondary socket.
tunnel_receive_first(t, raw) ==
    /\ Idle
    /\ t \in DOMAIN tunnels
    /\ tunnels[t].sock \in {"open", "closing"}
    /\ ~tunnels[t].resolved
    /\ tunnels' = [tunnels EXCEPT ![t] = FirstFrame(@, raw)]
    /\ UNCHANGED <<sessionVars, calls, file_tunnels, shell_tunnels, smart_shell_tunnels, filterVars, filesVars, shellVars>>

\* A frame that ws hands to the 'message' listener in the same tick as
\* the frame before it (both came in one chunk of the connection): no
\* promise reaction has run in between, this.initialized.resolved is still
\* false.
MaxBurst == 2
Sentinels == {"c", "cr"}
tunnel_receive_burst(t, raw) ==
    /\ t \in DOMAIN tunnels
    /\ tunnels[t].sock \in {"open", "closing"}
    /\ FlagReaction(t)
    /\ tunnels[t].echoes < MaxBurst
    /\ tunnels' = [tunnels EXCEPT ![t] = FirstFrame(@, raw)]
    /\ UNCHANGED <<sessionVars, calls, file_tunnels, shell_tunnels, smart_shell_tunnels, filterVars, filesVars, shellVars>>

\* ------------------------------------------------------------------ _Files
\* A settlement of a request's `finished` _Deferred, or of the promise a
\* caller holds: val names the value (the reply, true, a {result, size}
\* object by its result, undefined, or the error), size the size field.
FOut(st, val, size) == [st |-> st, val |-> val, size |-> size]
FPending == FOut("pending", "", 0)
SocketClosedReason == "Socket closed"

\* A frame on the relay socket: a JSON text with its action, sub and id
\* (reqid / id / responseid) fields, or binary data.
FJson(action, sub, id) == [bin |-> FALSE, action |-> action, sub |-> sub, id |-> id, bytes |-> <<>>]
FBin(bytes) == [bin |-> TRUE, action |-> "", sub |-> "", id |-> NoId, bytes |-> bytes]

\* _get_request_id:
\*   this._request_id = this._request_id++%(2**32-1)
\* the post-increment yields the old value, and the assignment stores the
\* old value modulo the modulus over the incremented field.
get_request_id(c) == c % CmdMod

\* One request of a _Files object.  type is "ls", "mkdir" (mkdir, rm and
\* rename), "upload" or "download".  ran is the position of its closure
\* (r or f) in the chain this._download_finished:
\*   "threw"   _send_command threw, the request was never queued
\*   "waiting" the closure has not run
\*   "sent"    the closure ran with the tunnel alive and returned `finished`
\*   "skipped" the closure ran with the tunnel not alive and returned undefined
\* The remaining fields are those of an upload (source: the bytes the
\* source stream still holds, cbuf: the chunker's _buffer, piped: how many
\* times the chunker's handlers were attached, flushed, chunks: the chunks
\* the chunker has emitted) and of a download (sink: the bytes written to
\* the target, sink_ended, frames: the data frames received).
MkFileReq(type, id, ran, source) ==
    [type |-> type, id |-> id, ran |-> ran, finished |-> FPending,
     size |-> 0, inflight |-> 0, complete |-> FALSE,
     source |-> source, cbuf |-> <<>>, piped |-> 0, flushed |-> FALSE, ended |-> FALSE,
     chunks |-> <<>>, acks |-> 0,
     sink |-> <<>>, sink_ended |-> FALSE, frames |-> <<>>]

\* The promise this._download_finished holds after the closure of request
\* r was chained: the closure's result.
Inner(r) ==
    IF r.ran = "waiting" THEN FPending
    ELSE IF r.ran = "skipped" THEN FOut("resolved", "undefined", 0)
    ELSE r.finished

\* The promise the caller of the request holds: _send_command's rejection
\* when it threw; for ls the chain's promise followed by
\* .then(data => data.dir), which throws on undefined; else the chain's promise.
Ret(r) ==
    IF r.ran = "threw" THEN FOut("rejected", SocketClosed, 0)
    ELSE IF r.type = "ls" /\ Inner(r) = FOut("resolved", "undefined", 0)
    THEN FOut("rejected", "TypeError", 0)
    ELSE Inner(r)

\* this._download_finished.then(r, r): the closure of request k runs once
\* the promise of the closure chained before it has settled (the chain
\* starts resolved).
Chained(k) == freqs[k].ran # "threw"
ChainReadyMutantNoWait(k) == TRUE
ChainReady(k) ==
    LET before == {j \in 1..(k - 1) : Chained(j)}
    IN  IF before = {} THEN TRUE
        ELSE LET p == CHOOSE j \in before : \A i \in before : i <= j
             IN  Inner(freqs[p]).st # "pending"

DispatchReaction(k) == freqs[k].ran = "waiting" /\ ChainReady(k)
\* The event loop is free to handle the next event of the files tunnel.
FilesIdle == ~uncaught /\ ~\E k \in DOMAIN freqs : DispatchReaction(k)

\* The frame a request's closure writes.
StartFrame(r) ==
    IF r.type = "download" THEN FJson("download", "start", r.id) ELSE FJson(r.type, "", r.id)
\* this._sock.send: ws writes nothing outside the OPEN state.
FilesWritten(frames) == IF files_sock = "open" THEN files_sent \o frames ELSE files_sent

\* n callbacks in a row that each take the head of the queue and settle it:
\*   let req = this._request_queue.shift(); req.finished.resolve/reject(...)
\* On an empty queue req is undefined and req.finished throws.
RECURSIVE ShiftSettle(_, _, _, _)
ShiftSettle(n, q, rs, outcome) ==
    IF n = 0 THEN [q |-> q, rs |-> rs, threw |-> FALSE]
    ELSE IF q = <<>> THEN [q |-> q, rs |-> rs, threw |-> TRUE]
    ELSE ShiftSettle(n - 1, Tail(q), [rs EXCEPT ![Head(q)].finished = Settle(@, outcome)], outcome)

\* async _send_command(data, name) as called by ls ("ls") and by mkdir, rm
\* and rename ("mkdir"), which first register their two server-event
\* listeners on the session.
files_send_command(type) ==
    /\ ~uncaught
    /\ Len(freqs) < MaxFileReqs
    /\ files_listeners' = IF type = "mkdir" THEN Append(files_listeners, Len(freqs) + 1)
                          ELSE files_listeners
    /\ IF ~files_alive
       THEN /\ freqs' = Append(freqs, MkFileReq(type, NoId, "threw", <<>>))
            /\ UNCHANGED <<request_id, request_queue>>
       ELSE /\ request_id' = get_request_id(request_id)
            /\ freqs' = Append(freqs, MkFileReq(type, MkId(type, request_id'), "waiting", <<>>))
            /\ request_queue' = Append(request_queue, Len(freqs) + 1)
    /\ UNCHANGED <<files_sock, files_alive, files_sent, files_eventer, uncaught>>
    /\ UNCHANGED <<sessionVars, tunnelVars, filterVars, shellVars>>

\* async upload(source, target) and async download(source, target): the
\* request is queued whether or not the tunnel is alive.
files_transfer(type, source) ==
    /\ ~uncaught
    /\ Len(freqs) < MaxFileReqs
    /\ request_id' = get_request_id(request_id)
    /\ freqs' = Append(freqs, MkFileReq(type, MkId(type, request_id'), "waiting", source))
    /\ request_queue' = Append(request_queue, Len(freqs) + 1)
    /\ UNCHANGED <<files_sock, files_alive, files_sent, files_eventer, files_listeners, uncaught>>
    /\ UNCHANGED <<sessionVars, tunnelVars, filterVars, shellVars>>

\* The closure r / f of request k, run by the chain.
files_dispatch(k) ==
    /\ ~uncaught
    /\ k \in DOMAIN freqs
    /\ DispatchReaction(k)
    /\ IF files_alive
       THEN /\ files_sent' = FilesWritten(<<StartFrame(freqs[k])>>)
            /\ freqs' = [freqs EXCEPT ![k].ran = "sent"]
            /\ files_eventer' = IF freqs[k].type \in {"upload", "download"}
                                THEN Append(files_eventer, [key |-> freqs[k].id, req |-> k])
                                ELSE files_eventer
       ELSE /\ freqs' = [freqs EXCEPT ![k].ran = "skipped"]
            /\ UNCHANGED <<files_sent, files_eventer>>
    /\ UNCHANGED <<files_sock, files_alive, request_id, request_queue, files_listeners, uncaught>>
    /\ UNCHANGED <<sessionVars, tunnelVars, filterVars, shellVars>>

\* _on_close: every queued request is rejected.
on_close_queue ==
    [k \in DOMAIN freqs |->
        IF \E i \in DOMAIN request_queue : request_queue[i] = k
        THEN [freqs[k] EXCEPT !.finished = Settle(@, FOut("rejected", SocketClosedReason, 0))]
        ELSE freqs[k]]

\* The relay socket's 'close' event: the handler of _Tunnel._initialize,
\* then _on_close (registered by the constructor once initialized).
files_sock_on_close ==
    /\ FilesIdle
    /\ files_sock \in {"open", "closing", "errored"}
    /\ files_sock' = "closed"
    /\ files_alive' = FALSE
    /\ freqs' = on_close_queue
    /\ request_queue' = <<>>
    /\ UNCHANGED <<request_id, files_sent, files_eventer, files_listeners, uncaught>>
    /\ UNCHANGED <<sessionVars, tunnelVars, filterVars, shellVars>>

\* The relay socket's 'error' event; ws emits 'close' after it.
files_sock_on_error ==
    /\ FilesIdle
    /\ files_sock \in {"open", "closing"}
    /\ files_sock' = "errored"
    /\ files_alive' = FALSE
    /\ UNCHANGED <<request_id, request_queue, freqs, files_sent, files_eventer,
                   files_listeners, uncaught>>
    /\ UNCHANGED <<sessionVars, tunnelVars, filterVars, shellVars>>

\* close() on the files tunnel.
files_close ==
    /\ ~uncaught
    /\ files_sock = "open"
    /\ files_sock' = "closing"
    /\ UNCHANGED <<files_alive, request_id, request_queue, freqs, files_sent,
                   files_eventer, files_listeners, uncaught>>
    /\ UNCHANGED <<sessionVars, tunnelVars, filterVars, shellVars>>

\* A server event on the session that matches the filter of the success
\* listeners ("agentlog") or of the failure listeners ("console") of mkdir,
\* rm and rename: emit calls the listener of every pair still registered;
\* each unregisters its pair, takes the head of the queue and settles it.
files_server_event(ev) ==
    /\ FilesIdle
    /\ files_listeners # <<>>
    /\ LET outcome == IF ev = "agentlog" THEN FOut("resolved", "true", 0)
                      ELSE FOut("rejected", "ServerError", 0)
           res == ShiftSettle(Len(files_listeners), request_queue, freqs, outcome)
       IN  /\ request_queue' = res.q
           /\ freqs' = res.rs
           /\ uncaught' = res.threw
    /\ files_listeners' = <<>>
    /\ UNCHANGED <<files_sock, files_alive, request_id, files_sent, files_eventer>>
    /\ UNCHANGED <<sessionVars, tunnelVars, filterVars, shellVars>>

\* ------------------------------------------------------- _Files: upload
\* Buffers are sequences of bytes.  Buffer.alloc(n): n zero bytes.
BufAlloc(n) == [i \in 1..n |-> 0]
\* src.copy(dst, at): the bytes of src over dst from offset at, as far as
\* dst reaches.
BufCopy(src, dst, at) ==
    [i \in 1..Len(dst) |-> IF i > at /\ i - at <= Len(src) THEN src[i - at] ELSE dst[i]]
\* buf.slice(from, to): offsets are clipped to the buffer.
BufSlice(buf, from, to) ==
    SubSeq(buf, from + 1, IF to < Len(buf) THEN to ELSE Len(buf))
\* buf[i]: undefined (never equal to a byte) past the end.
BufAt(buf, i) == IF i + 1 \in DOMAIN buf THEN buf[i + 1] ELSE -1

\* n copies of the sequence s in a row.
RECURSIVE Repeat(_, _)
Repeat(s, n) == IF n = 0 THEN <<>> ELSE s \o Repeat(s, n - 1)
\* The sum of the lengths of the sequences in ss.
RECURSIVE TotalLen(_)
TotalLen(ss) == IF ss = <<>> THEN 0 ELSE Len(Head(ss)) + TotalLen(Tail(ss))

\* _SizeChunker._transform on the buffer joined with the new piece:
\*   while (chunk_start + this.chunksize < this._buffer.length) { push; ... }
\* out are the chunks pushed, rest is the new _buffer.
RECURSIVE ChunkerTransform(_)
ChunkerTransform(buf) ==
    IF ChunkSize < Len(buf)
    THEN LET more == ChunkerTransform(BufSlice(buf, ChunkSize, Len(buf)))
         IN  [out |-> <<BufSlice(buf, 0, ChunkSize)>> \o more.out, rest |-> more.rest]
    ELSE [out |-> <<>>, rest |-> buf]

\* The frame the chunker's "data" handler sends for the chunk new_buf:
\*   let buf = Buffer.alloc(65565); var start = 1; new_buf.copy(buf, start)
\*   if ((buf[1] == 0) || (buf[1] == 123)) { start = 0; buf[0] = 0; len++; }
\*   this._sock.send(buf.slice(start, start + len))
DataFrameMutantNoEscape(new_buf) == new_buf
DataFrameMutantEscapeBraceOnly(new_buf) ==
    IF new_buf # <<>> /\ new_buf[1] = 123 THEN <<0>> \o new_buf ELSE new_buf
DataFrameMutantAlwaysPrefix(new_buf) == <<0>> \o new_buf
DataFrame(new_buf) ==
    LET buf == BufCopy(new_buf, BufAlloc(ChunkSize + 1), 1)
        len == Len(new_buf)
    IN  IF BufAt(buf, 1) = 0 \/ BufAt(buf, 1) = 123
        THEN BufSlice([buf EXCEPT ![1] = 0], 0, len + 1)
        ELSE BufSlice(buf, 1, 1 + len)

\* The "data" handlers of request r called for the chunks the chunker
\* pushed (an empty push emits no "data"): every attached handler sends
\* one frame per chunk and counts it.
AfterData(r, out) ==
    LET got == SelectSeq(out, LAMBDA c : Len(c) > 0)
    IN  [r EXCEPT !.size = @ + r.piped * TotalLen(got),
                  !.inflight = @ + r.piped * Len(got),
                  !.chunks = @ \o got]
RECURSIVE DataFrames(_, _)
DataFrames(out, piped) ==
    IF out = <<>> THEN <<>>
    ELSE (IF Len(Head(out)) > 0 THEN Repeat(<<FBin(DataFrame(Head(out)))>>, piped) ELSE <<>>)
            \o DataFrames(Tail(out), piped)

\* The source stream hands its next n bytes to the chunker it is piped
\* into (once per pipe): _transform, and the "data" handlers for what it
\* pushes.
upload_transform(k, n) ==
    /\ FilesIdle
    /\ k \in DOMAIN freqs
    /\ freqs[k].piped > 0
    /\ n \in 1..Len(freqs[k].source)
    /\ LET r == freqs[k]
           res == ChunkerTransform(r.cbuf \o Repeat(SubSeq(r.source, 1, n), r.piped))
       IN  /\ freqs' = [freqs EXCEPT ![k] =
                           [AfterData(r, res.out) EXCEPT
                               !.source = SubSeq(r.source, n + 1, Len(r.source)),
                               !.cbuf = res.rest]]
           /\ files_sent' = FilesWritten(DataFrames(res.out, r.piped))
    /\ UNCHANGED <<files_sock, files_alive, request_id, request_queue, files_eventer,
                   files_listeners, uncaught>>
    /\ UNCHANGED <<sessionVars, tunnelVars, filterVars, shellVars>>

\* The source stream has ended: _flush pushes what the chunker holds.
upload_flush(k) ==
    /\ FilesIdle
    /\ k \in DOMAIN freqs
    /\ freqs[k].piped > 0
    /\ freqs[k].source = <<>>
    /\ ~freqs[k].flushed
    /\ LET r == freqs[k]
       IN  /\ freqs' = [freqs EXCEPT ![k] = [AfterData(r, <<r.cbuf>>) EXCEPT !.flushed = TRUE]]
           /\ files_sent' = FilesWritten(DataFrames(<<r.cbuf>>, r.piped))
    /\ UNCHANGED <<files_sock, files_alive, request_id, request_queue, files_eventer,
                   files_listeners, uncaught>>
    /\ UNCHANGED <<sessionVars, tunnelVars, filterVars, shellVars>>

\* The uploaddone frame of request r, written when the chunker has ended
\* and nothing is in flight.
DoneMutantNoInflightCheck(r) == r.complete
Done(r) == r.complete /\ r.inflight = 0
UploadDone(r) == FJson("uploaddone", "", r.id)

\* The chunker's "end" event: every attached "end" handler runs.
upload_end(k) ==
    /\ FilesIdle
    /\ k \in DOMAIN freqs
    /\ freqs[k].flushed
    /\ ~freqs[k].ended
    /\ LET r == [freqs[k] EXCEPT !.complete = TRUE, !.ended = TRUE]
       IN  /\ freqs' = [freqs EXCEPT ![k] = r]
           /\ files_sent' = FilesWritten(IF Done(r) THEN Repeat(<<UploadDone(r)>>, r.piped) ELSE <<>>)
    /\ UNCHANGED <<files_sock, files_alive, request_id, request_queue, files_eventer,
                   files_listeners, uncaught>>
    /\ UNCHANGED <<sessionVars, tunnelVars, filterVars, shellVars>>

\* this._eventer.emit(req.id, data): the once-listener of every dispatched
\* transfer registered under that id takes the head of the queue and
\* resolves it when data.result is "success", else rejects it.
files_emit(key, outcome) ==
    LET n == Cardinality({i \in DOMAIN files_eventer : files_eventer[i].key = key})
        res == ShiftSettle(n, request_queue, freqs, outcome)
    IN  /\ request_queue' = res.q
        /\ freqs' = res.rs
        /\ uncaught' = res.threw
        /\ files_eventer' = SelectSeq(files_eventer, LAMBDA l : l.key # key)

\* _handle_upload(raw_data, req) for req = the head k of the queue.
handle_upload(f, k) ==
    LET r == freqs[k]
    IN  IF f.bin \/ f.id # r.id
        THEN UNCHANGED <<request_queue, freqs, files_sent, files_eventer, uncaught>>
        ELSE IF f.action = "uploaddone"
        THEN /\ files_emit(r.id, FOut("resolved", "success", r.size))
             /\ UNCHANGED files_sent
        ELSE IF f.action = "uploadstart"
        THEN /\ freqs' = [freqs EXCEPT ![k].piped = @ + 1]
             /\ UNCHANGED <<request_queue, files_sent, files_eventer, uncaught>>
        ELSE IF f.action = "uploadack"
        THEN LET r2 == [r EXCEPT !.inflight = @ - 1, !.acks = @ + 1]
             IN  /\ freqs' = [freqs EXCEPT ![k] = r2]
                 /\ files_sent' = FilesWritten(IF Done(r2) THEN <<UploadDone(r2)>> ELSE <<>>)
                 /\ UNCHANGED <<request_queue, files_eventer, uncaught>>
        ELSE IF f.action = "uploaderror"
        THEN /\ files_emit(r.id, FOut("rejected", "error", r.size))
             /\ UNCHANGED files_sent
        ELSE UNCHANGED <<request_queue, freqs, files_sent, files_eventer, uncaught>>

\* ----------------------------------------------------- _Files: download
\* (raw_data[3] & 1) != 0: the end flag; undefined & 1 is 0.
EndFlag(raw) == IF HeaderLen <= Len(raw) THEN raw[HeaderLen] % 2 = 1 ELSE FALSE
\* raw_data.slice(4): what is written to the target.
SinkWriteMutantWholeFrame(raw) == raw
SinkWrite(raw) == BufSlice(raw, HeaderLen, Len(raw))

\* this._eventer.emit(req.id, {result: "canceled", size: req.size}): the
\* once-listener rejects on any result other than "success".
CanceledMutantResolves(r) == FOut("resolved", "canceled", r.size)
Canceled(r) == FOut("rejected", "canceled", r.size)

\* _handle_download(raw_data, req) for req = the head k of the queue.
\* frames and acks record the data frames handled for the request and the
\* acks sent for it.
handle_download(f, k) ==
    LET r == freqs[k]
    IN  IF f.bin
        THEN LET raw == f.bytes
                 r2 == IF Len(raw) > HeaderLen
                       THEN [r EXCEPT !.sink = @ \o SinkWrite(raw),
                                      !.size = @ + Len(raw) - HeaderLen,
                                      !.frames = Append(@, raw)]
                       ELSE [r EXCEPT !.frames = Append(@, raw)]
             IN  IF EndFlag(raw)
                 THEN LET n == Cardinality({i \in DOMAIN files_eventer : files_eventer[i].key = r.id})
                          res == ShiftSettle(n, request_queue,
                                             [freqs EXCEPT ![k] = [r2 EXCEPT !.sink_ended = TRUE]],
                                             FOut("resolved", "success", r2.size))
                      IN  /\ request_queue' = res.q
                          /\ freqs' = res.rs
                          /\ uncaught' = res.threw
                          /\ files_eventer' = SelectSeq(files_eventer, LAMBDA l : l.key # r.id)
                          /\ UNCHANGED files_sent
                 ELSE /\ freqs' = [freqs EXCEPT ![k] = [r2 EXCEPT !.acks = @ + 1]]
                      /\ files_sent' = FilesWritten(<<FJson("download", "ack", r.id)>>)
                      /\ UNCHANGED <<request_queue, files_eventer, uncaught>>
        ELSE IF f.action # "download" \/ f.id # r.id
        THEN UNCHANGED <<request_queue, freqs, files_sent, files_eventer, uncaught>>
        ELSE IF f.sub = "start"
        THEN /\ files_sent' = FilesWritten(<<FJson("download", "startack", r.id)>>)
             /\ UNCHANGED <<request_queue, freqs, files_eventer, uncaught>>
        ELSE IF f.sub = "cancel"
        THEN LET n == Cardinality({i \in DOMAIN files_eventer : files_eventer[i].key = r.id})
                 res == ShiftSettle(n, request_queue, [freqs EXCEPT ![k].sink_ended = TRUE],
                                    Canceled(r))
             IN  /\ request_queue' = res.q
                 /\ freqs' = res.rs
                 /\ uncaught' = res.threw
                 /\ files_eventer' = SelectSeq(files_eventer, LAMBDA l : l.key # r.id)
                 /\ UNCHANGED files_sent
        ELSE UNCHANGED <<request_queue, freqs, files_sent, files_eventer, uncaught>>

\* _handle_action(raw_data): the head of the queue is resolved with the
\* parsed reply.
handle_action ==
    /\ request_queue' = Tail(request_queue)
    /\ freqs' = [freqs EXCEPT ![Head(request_queue)].finished = Settle(@, FOut("resolved", "reply", 0))]
    /\ UNCHANGED <<files_sent, files_eventer, uncaught>>

\* _Files._receive_message(raw_data) once initialized: the frame goes to
\* the handler for the type of the request at the head of the queue.
files_receive_message(f) ==
    /\ FilesIdle
    /\ files_sock \in {"open", "closing"}
    /\ IF request_queue = <<>>
       THEN UNCHANGED <<request_queue, freqs, files_sent, files_eventer, uncaught>>
       ELSE LET k == Head(request_queue)
            IN  IF ~f.bin /\ freqs[k].type \notin {"upload", "download"}
                THEN handle_action
                ELSE IF freqs[k].type = "upload" THEN handle_upload(f, k)
                ELSE IF freqs[k].type = "download" THEN handle_download(f, k)
                ELSE UNCHANGED <<request_queue, freqs, files_sent, files_eventer, uncaught>>
    /\ UNCHANGED <<files_sock, files_alive, request_id, files_listeners>>
    /\ UNCHANGED <<sessionVars, tunnelVars, filterVars, shellVars>>

\* ------------------------------------------------------- specifications
\* The state after `new Session(url, options)`.
InitSession ==
    /\ sock = "connecting"
    /\ alive = FALSE
    /\ initialized = Pending
    /\ socket_open = Pending
    /\ command_id = 0
    /\ inflight = {}
    /\ eventer = <<>>
    /\ reqs = <<>>
    /\ sent = <<>>
    /\ got_userinfo = FALSE
    /\ close_cbs = <<>>
    /\ tunnels = <<>>
    /\ calls = <<>>
    /\ file_tunnels = [n \in Nodes |-> 0]
    /\ shell_tunnels = [n \in Nodes |-> 0]
    /\ smart_shell_tunnels = [k \in Nodes \X Regexes |-> 0]

\* No filter in use.
InitNoSubs ==
    /\ subs = <<>>
    /\ emitted = <<>>
InitNoFilter ==
    /\ InitNoSubs
    /\ filter = NoFilter
    /\ data = Obj(<<>>)
    /\ matched = "none"

\* The state of a _Files object when _Files.create returns it: the first
\* frame was received (alive), nothing was requested yet.
InitFiles ==
    /\ files_sock = "open"
    /\ files_alive = TRUE
    /\ request_id = 0
    /\ request_queue = <<>>
    /\ freqs = <<>>
    /\ files_sent = <<>>
    /\ files_eventer = <<>>
    /\ files_listeners = <<>>
    /\ uncaught = FALSE

\* The state of a _Shell object when _Shell.create returns it.
InitShell ==
    /\ shell_sock = "open"
    /\ shell_buffer = <<>>
    /\ reads = <<>>

Init ==
    /\ InitSession
    /\ InitNoFilter
    /\ InitFiles
    /\ InitShell

\* The frames a server sends to a caller's requests: userinfo, and replies
\* with every combination of an echoed responseid and tag.
XIds == {MkId("x", n) : n \in 0..(CmdMod - 1)}
UserinfoFrame == MkFrame("userinfo", NoId, NoId, "")
CoreFrames ==
    {UserinfoFrame}
        \cup {MkFrame("nodes", r, t, "") : r \in XIds \cup {NoId}, t \in XIds \cup {NoId}}

\* The session with a caller issuing requests without a timeout.
Next ==
    \/ sock_on_open
    \/ sock_on_close
    \/ sock_on_error
    \/ \E f \in CoreFrames : receive_message(f)
    \/ send_command(FALSE)
    \/ send_command_no_response_id(FALSE)

Spec == Init /\ [][Next]_vars

\* The session with a caller issuing correlated requests with and without
\* a timeout; the server echoes the id in both fields.
EchoFrames == {UserinfoFrame} \cup {MkFrame("nodes", r, r, "") : r \in XIds}
NextTimeout ==
    \/ sock_on_open
    \/ sock_on_close
    \/ \E f \in EchoFrames : receive_message(f)
    \/ \E timed \in BOOLEAN : send_command(timed)
    \/ \E i \in 1..MaxReqs : timer_fire(i)

SpecTimeout == Init /\ [][NextTimeout]_vars

\* The frames a server sends during tunnel handshakes.
RelayIds == {MkId("initialize_shell", n) : n \in 0..(CmdMod - 1)}
AuthcookieFrame == MkFrame("authcookie", NoId, NoId, "")
TunnelFrames ==
    {AuthcookieFrame} \cup {MkFrame("msg", r, NoId, res) : r \in RelayIds, res \in {"OK", "ok"}}

\* The session with a caller opening tunnels one after the other: it awaits
\* the tunnel of one factory call before it makes the next call.
Awaited == \A c \in DOMAIN calls : calls[c].st # "awaiting"
NextTunnel ==
    \/ sock_on_open
    \/ sock_on_close
    \/ \E f \in TunnelFrames : receive_message(f)
    \/ \E kind \in TunnelKinds, node \in Nodes, regex \in Regexes, unique \in BOOLEAN :
          Awaited /\ factory_call(kind, node, regex, unique)
    \/ \E c \in 1..MaxCalls : factory_resume(c)
    \/ \E t \in 1..MaxCalls : tunnel_cookie_then(t)
    \/ \E t \in 1..MaxCalls : tunnel_relay_then(t)
    \/ \E t \in 1..MaxCalls : tunnel_sock_on_open(t)
    \/ \E t \in 1..MaxCalls : tunnel_sock_on_close(t)
    \/ \E t \in 1..MaxCalls : tunnel_receive_first(t, "c")
    \/ \E t \in 1..MaxCalls : tunnel_initialized_then(t)

SpecTunnel == Init /\ [][NextTunnel]_vars

\* The session with callers whose factory calls may overlap: a call may be
\* made while the tunnel of an earlier call is still in its handshake.
NextCache ==
    \/ sock_on_open
    \/ sock_on_close
    \/ \E f \in TunnelFrames : receive_message(f)
    \/ \E kind \in TunnelKinds, node \in Nodes, regex \in Regexes, unique \in BOOLEAN :
          factory_call(kind, node, regex, unique)
    \/ \E c \in 1..MaxCalls : factory_resume(c)
    \/ \E t \in 1..MaxCalls : tunnel_cookie_then(t)
    \/ \E t \in 1..MaxCalls : tunnel_relay_then(t)
    \/ \E t \in 1..MaxCalls : tunnel_sock_on_open(t)
    \/ \E t \in 1..MaxCalls : tunnel_sock_on_close(t)
    \/ \E t \in 1..MaxCalls : tunnel_receive_first(t, "c")
    \/ \E t \in 1..MaxCalls : tunnel_initialized_then(t)

SpecCache == Init /\ [][NextCache]_vars

\* The session with on_close listeners and a caller opening cached tunnels
\* of the three kinds, against a server that acknowledges every relay.
AckFrames == {AuthcookieFrame} \cup {MkFrame("msg", r, NoId, "OK") : r \in RelayIds}
NextClose ==
    \/ sock_on_open
    \/ sock_on_close
    \/ on_close
    \/ \E f \in AckFrames : receive_message(f)
    \/ \E kind \in TunnelKinds, node \in Nodes, regex \in Regexes :
          Awaited /\ factory_call(kind, node, regex, FALSE)
    \/ \E c \in 1..MaxCalls : factory_resume(c)
    \/ \E t \in 1..MaxCalls : tunnel_cookie_then(t)
    \/ \E t \in 1..MaxCalls : tunnel_relay_then(t)
    \/ \E t \in 1..MaxCalls : tunnel_sock_on_open(t)
    \/ \E t \in 1..MaxCalls : tunnel_sock_on_close(t)
    \/ \E t \in 1..MaxCalls : tunnel_receive_first(t, "c")
    \/ \E t \in 1..MaxCalls : tunnel_initialized_then(t)

\* Promise reactions run, and ws emits 'close' on a socket whose close()
\* was called.
TunnelFairness ==
    \A t \in 1..MaxCalls :
        /\ WF_vars(factory_resume(t))
        /\ WF_vars(tunnel_cookie_then(t))
        /\ WF_vars(tunnel_relay_then(t))
        /\ WF_vars(tunnel_initialized_then(t))
        /\ WF_vars(t \in DOMAIN tunnels /\ tunnels[t].sock = "closing" /\ tunnel_sock_on_close(t))
SpecClose == Init /\ [][NextClose]_vars /\ TunnelFairness

\* The session with a caller opening tunnels one after the other, against
\* a network on which the session socket and the secondary sockets may
\* also fail with an error.
NextHandshake ==
    \/ sock_on_open
    \/ sock_on_close
    \/ sock_on_error
    \/ \E f \in TunnelFrames : receive_message(f)
    \/ \E kind \in TunnelKinds, node \in Nodes, regex \in Regexes, unique \in BOOLEAN :
          Awaited /\ factory_call(kind, node, regex, unique)
    \/ \E c \in 1..MaxCalls : factory_resume(c)
    \/ \E t \in 1..MaxCalls : tunnel_cookie_then(t)
    \/ \E t \in 1..MaxCalls : tunnel_relay_then(t)
    \/ \E t \in 1..MaxCalls : tunnel_sock_on_open(t)
    \/ \E t \in 1..MaxCalls : tunnel_sock_on_close(t)
    \/ \E t \in 1..MaxCalls : tunnel_sock_on_error(t)
    \/ \E t \in 1..MaxCalls : tunnel_receive_first(t, "c")
    \/ \E t \in 1..MaxCalls : tunnel_initialized_then(t)
    \/ \E t \in 1..MaxCalls, raw \in Sentinels : tunnel_receive_burst(t, raw)

\* Promise reactions run, and ws emits 'close' on a socket that is closing
\* or that had an error.
HandshakeFairness ==
    /\ WF_vars(sock = "errored" /\ sock_on_close)
    /\ \A t \in 1..MaxCalls :
        /\ WF_vars(factory_resume(t))
        /\ WF_vars(tunnel_cookie_then(t))
        /\ WF_vars(tunnel_relay_then(t))
        /\ WF_vars(tunnel_initialized_then(t))
        /\ WF_vars(t \in DOMAIN tunnels /\ tunnels[t].sock \in {"closing", "errored"}
                      /\ tunnel_sock_on_close(t))
SpecHandshake == Init /\ [][NextHandshake]_vars /\ HandshakeFairness

\* The event filter applied to one filter and one event.
InitFilter ==
    /\ InitSession
    /\ InitFiles
    /\ InitShell
    /\ filter \in TopObjs \cup {NoFilter}
    /\ data \in TopObjs
    /\ matched = "none"
    /\ InitNoSubs
NextFilter == listen_to_events
SpecFilter == InitFilter /\ [][NextFilter]_vars

\* ===================================================== claims: the session
CmdReqs == {i \in DOMAIN reqs : reqs[i].kind = "cmd" /\ reqs[i].key # NoId}
NoresReqs == {i \in DOMAIN reqs : reqs[i].kind = "nores" /\ reqs[i].key # NoId}
\* The id a reply frame echoes: its responseid, or else its tag.
Echoed(f) == IF f.responseid # NoId THEN f.responseid ELSE f.tag

\* C1: whatever the number of pending correlated requests and the order of
\* the replies, a request resolves only with a frame that echoes its own
\* id, and its waiter is called at most once: a second frame echoing the
\* id reaches no waiter.
C1_CorrectDispatch ==
    \A i \in CmdReqs :
        /\ reqs[i].calls <= 1
        /\ reqs[i].p.st = "resolved" => Echoed(reqs[i].p.frame) = reqs[i].key
        /\ reqs[i].out.st = "resolved" => Echoed(reqs[i].out.frame) = reqs[i].key
\* Two requests pending at once, the later one answered first, with a frame
\* that carries the other request's id as its tag.
C1_Witness ==
    \E i, j \in CmdReqs :
        /\ i < j
        /\ reqs[i].p.st = "pending"
        /\ reqs[j].p.st = "resolved"
        /\ reqs[j].p.frame.tag = reqs[i].key

\* C2: the close handler of the session socket rejects every pending
\* correlated request with SocketError and leaves the in-flight table
\* empty; none stays pending.
ClosingStep == sock # "closed" /\ sock' = "closed"
C2_CloseRejectsAll ==
    [][ClosingStep =>
          /\ inflight' = {}
          /\ \A i \in CmdReqs :
                /\ reqs'[i].p.st # "pending"
                /\ reqs[i].p.st = "pending" => reqs'[i].p = Rejected(SocketClosed)
                /\ reqs[i].out.st = "pending" => reqs'[i].out = Rejected(SocketClosed)]_vars
\* The socket closed while two correlated requests were pending.
C2_Witness ==
    /\ sock = "closed"
    /\ Cardinality({i \in CmdReqs : reqs[i].p = Rejected(SocketClosed)}) >= 2

\* C3: the id _send_command generates is not in the in-flight table, so no
\* two pending requests share an id, also after the counter has wrapped.
SendStep == Len(reqs') = Len(reqs) + 1
C3_FreshId ==
    [][SendStep /\ reqs'[Len(reqs')].kind = "cmd" /\ reqs'[Len(reqs')].key # NoId =>
          /\ reqs'[Len(reqs')].key \notin inflight
          /\ \A i \in CmdReqs : reqs[i].p.st = "pending" => reqs[i].key # reqs'[Len(reqs')].key]_vars
\* The counter wrapped and a candidate was skipped: a request got an id
\* that is not the successor of the id generated before it, while the
\* request holding the skipped id is still pending.
C3_Witness ==
    \E i, j \in CmdReqs :
        /\ j + 1 \in CmdReqs
        /\ i < j
        /\ reqs[j + 1].key.num < reqs[j].key.num \/ reqs[j].key.num < reqs[i].key.num
        /\ reqs[j + 1].key.num # get_command_id(reqs[j].key.num)
        /\ reqs[i].p.st = "pending"
        /\ reqs[i].key.num = get_command_id(reqs[j].key.num)

\* C4: the returned promise of a request with a timeout is settled by
\* whichever comes first, the timer (TimeoutError) or the settlement of
\* the waiter (the reply); what comes later changes nothing; the timer
\* writes no frame and touches no waiter.
TimerStep(i) == reqs[i].timer = "armed" /\ reqs'[i].timer = "fired"
C4_TimeoutRace ==
    [][\A i \in DOMAIN reqs :
          /\ reqs[i].out.st # "pending" => reqs'[i].out = reqs[i].out
          /\ TimerStep(i) =>
                /\ reqs[i].out.st = "pending" => reqs'[i].out = Rejected(TimedOut)
                /\ sent' = sent
                /\ reqs'[i].p = reqs[i].p
          /\ (reqs[i].p.st = "pending" /\ reqs'[i].p.st = "resolved" /\ reqs[i].out.st = "pending")
                => reqs'[i].out = reqs'[i].p]_vars
\* One request timed out and was answered afterwards; another was answered
\* before its timer fired.
C4_Witness ==
    \E i, j \in CmdReqs :
        /\ reqs[i].out = Rejected(TimedOut)
        /\ reqs[i].p.st = "resolved"
        /\ reqs[j].timer = "fired"
        /\ reqs[j].out.st = "resolved"

\* C5 as claimed: of two unnamespaced requests pending for one action, a
\* reply frame for that action settles the first registered only and
\* leaves the later one pending.
NoresReplyStep(i) ==
    i \in NoresReqs /\ reqs[i].p.st = "pending" /\ reqs'[i].p.st = "resolved"
C5_FirstWaiterOnly ==
    [][\A i, j \in NoresReqs :
          (i < j /\ reqs[i].key = reqs[j].key /\ reqs[j].p.st = "pending" /\ NoresReplyStep(i))
              => reqs'[j].p.st = "pending"]_vars
\* C5 as amended: a reply frame for an action is delivered to every
\* unnamespaced request pending for that action; all of them resolve with
\* that frame and none stays pending.
C5_EveryWaiter ==
    [][\A i, j \in NoresReqs :
          (reqs[i].key = reqs[j].key /\ reqs[j].p.st = "pending" /\ NoresReplyStep(i))
              => (reqs'[j].p = reqs'[i].p /\ reqs'[j].calls = 1)]_vars
\* Two unnamespaced requests for one action, both resolved.
C5_Witness ==
    \E i, j \in NoresReqs :
        /\ i < j
        /\ reqs[i].key = reqs[j].key
        /\ reqs[i].p.st = "resolved"
        /\ reqs[j].p = reqs[i].p
        /\ Len(eventer) = 0

\* C7: the readiness future is resolved exactly when a userinfo frame was
\* received, is rejected when the socket closed or failed before, and keeps
\* its outcome; an open socket without userinfo is alive but not ready.
C7_ReadyState ==
    /\ initialized.st = "resolved" <=> got_userinfo
    /\ (sock \in {"errored", "closed"} /\ ~got_userinfo) => initialized.st = "rejected"
    /\ initialized.st = "rejected" => sock \in {"errored", "closed"}
    /\ (sock = "open" /\ ~got_userinfo) => (alive /\ initialized = Pending)
C7_Readiness ==
    /\ []C7_ReadyState
    /\ [][initialized.st # "pending" => initialized' = initialized]_vars
\* A request was written to the open socket before userinfo arrived.
C7_Witness ==
    /\ sock = "open"
    /\ ~got_userinfo
    /\ initialized = Pending
    /\ Len(sent) > 0

\* ==================================================== claims: the tunnels
\* C8: the close handler of the session socket drops the alive flag, calls
\* every on_close listener and calls close() on every tunnel held in the
\* three registries; the socket of such a tunnel then closes and the tunnel
\* is not alive.
C8_CloseFanOut ==
    /\ [][ClosingStep =>
            /\ ~alive'
            /\ \A i \in DOMAIN close_cbs : close_cbs'[i] = close_cbs[i] + 1
            /\ \A t \in Registered : tunnels'[t].sock \in {"closing", "closed"}]_vars
    /\ \A t \in 1..MaxCalls :
          (t \in DOMAIN tunnels /\ tunnels[t].sock = "closing")
              ~> (t \in DOMAIN tunnels /\ tunnels[t].sock = "closed" /\ ~tunnels[t].alive)
\* The session closed with an on_close listener and two live tunnels in
\* its registries: the listener was called, both sockets are closing.
C8_Witness ==
    /\ sock = "closed"
    /\ ~alive
    /\ Len(close_cbs) > 0
    /\ \A i \in DOMAIN close_cbs : close_cbs[i] = 1
    /\ Cardinality(Registered) >= 2
    /\ \A t \in Registered : tunnels[t].sock = "closing"

\* The cache entry a call looks at, after the step.
CachedNext(kind, node, regex) ==
    IF kind = "files" THEN file_tunnels'[node]
    ELSE IF kind = "shell" THEN shell_tunnels'[node]
    ELSE smart_shell_tunnels'[<<node, regex>>]
Registries == <<file_tunnels, shell_tunnels, smart_shell_tunnels>>
CallStep == Len(calls') = Len(calls) + 1
ResumeStep(c) == c \in DOMAIN calls /\ calls[c].st = "awaiting" /\ calls'[c].st = "returned"
\* What a store under the key of call c leaves of the registries.
StoredOnly(c) ==
    /\ CachedNext(calls[c].kind, calls[c].node, calls[c].regex) = calls[c].tunnel
    /\ \A kind \in TunnelKinds, node \in Nodes, regex \in Regexes :
          (kind # calls[c].kind \/ node # calls[c].node
              \/ (kind = "smart" /\ regex # calls[c].regex))
            => CachedNext(kind, node, regex) = Cached(kind, node, regex)

\* The calls other than c that built a tunnel for the key of c.
SameKeyBuilders(c) ==
    {d \in DOMAIN calls :
        /\ d # c /\ ~calls[d].hit /\ ~calls[d].unique
        /\ calls[d].kind = calls[c].kind /\ calls[d].node = calls[c].node
        /\ (calls[c].kind = "smart" => calls[d].regex = calls[c].regex)}

RelayReply(t) == reqs[tunnels[t].relay_req].out
HasRelayReply(t) == tunnels[t].relay_req # 0 /\ RelayReply(t).st = "resolved"
HasCookieReply(t) == reqs[tunnels[t].cookie_req].out.st = "resolved"

\* C10: a relay-prepare reply whose result is not exactly "OK" rejects the
\* tunnel's readiness future with that reply; such a tunnel never has a
\* secondary socket and is never alive.  A secondary socket exists only
\* after the authcookie reply and then an "OK" relay-prepare reply.
C10_State ==
    \A t \in DOMAIN tunnels :
        /\ (HasRelayReply(t) /\ RelayReply(t).frame.result # "OK") =>
              /\ tunnels[t].sock = "none"
              /\ ~tunnels[t].alive
              /\ tunnels[t].st \in {"AwaitingRelayAck", "Rejected"}
              /\ tunnels[t].st = "Rejected" => tunnels[t].initialized = RejectedWith(RelayReply(t).frame)
        /\ tunnels[t].sock # "none" =>
              /\ HasCookieReply(t)
              /\ HasRelayReply(t)
              /\ RelayReply(t).frame.result = "OK"
        /\ tunnels[t].alive => tunnels[t].sock # "none"
C10_RelayAck ==
    /\ []C10_State
    /\ [][\A t \in DOMAIN tunnels :
            /\ (tunnels[t].relay_req = 0 /\ tunnels'[t].relay_req # 0) => HasCookieReply(t)
            /\ (tunnels[t].sock = "none" /\ tunnels'[t].sock # "none") =>
                  (HasRelayReply(t) /\ RelayReply(t).frame.result = "OK")
            /\ (HasRelayReply(t) /\ RelayReply(t).frame.result # "OK"
                    /\ tunnels[t].st = "AwaitingRelayAck" /\ tunnels'[t] # tunnels[t])
                  => tunnels'[t].initialized = RejectedWith(RelayReply(t).frame)]_vars
\* A tunnel was refused with the result "ok": its readiness future holds
\* that reply, it has no socket.
C10_Witness ==
    \E t \in DOMAIN tunnels :
        /\ tunnels[t].st = "Rejected"
        /\ RelayReply(t).frame.result = "ok"
        /\ tunnels[t].initialized = RejectedWith(RelayReply(t).frame)
        /\ tunnels[t].sock = "none"

\* A step of the handshake of tunnel t has failed: its authcookie request
\* or its relay-prepare request was rejected, or its secondary socket had
\* an error or closed before the first frame.
HandshakeFailed(t) ==
    \/ reqs[tunnels[t].cookie_req].out.st = "rejected"
    \/ tunnels[t].relay_req # 0 /\ reqs[tunnels[t].relay_req].out.st = "rejected"
    \/ tunnels[t].sock \in {"errored", "closed"} /\ tunnels[t].initialized.st # "resolved"

\* C11 as claimed: once a step of a tunnel's handshake has failed, the
\* tunnel's readiness future is eventually rejected, so that _Tunnel.create
\* does not wait forever.
C11_HandshakeFailureRejects ==
    \A t \in 1..MaxCalls :
        (t \in DOMAIN tunnels /\ HandshakeFailed(t))
            ~> (t \in DOMAIN tunnels /\ tunnels[t].initialized.st = "rejected")

\* ================================================ claims: the event filter
\* The deep-subset test: every key of the predicate is present in the
\* candidate with a recursively matching value (an equal scalar, or an
\* object that matches in turn).
RECURSIVE DeepSubset(_, _)
DeepSubset(pred, cand) ==
    \A key \in DOMAIN pred.v :
        /\ IsObj(cand)
        /\ key \in DOMAIN cand.v
        /\ IF IsObj(pred.v[key])
           THEN DeepSubset(pred.v[key], cand.v[key])
           ELSE StrictEq(cand.v[key], pred.v[key])

\* C6 as claimed: for objects with scalar leaves, the leaves 0, false, null
\* and '' included, the filter lets an event through exactly when the
\* filter is a deep subset of the event.
C6_DeepSubsetMatch ==
    (matched # "none" /\ filter # NoFilter) =>
        (matched = "called" <=> DeepSubset(filter, data))

\* ==================================================== the files tunnel
\* The frames the peer sends on the relay socket while requests are queued:
\* a reply, the end of an upload, an upload error, a final download data
\* frame without payload, a download cancel.
QueueFrames ==
    {FJson("reply", "", NoId),
     FJson("uploaddone", "", MkId("upload", 0)),
     FJson("uploaderror", "", MkId("upload", 0)),
     FBin(BufAlloc(HeaderLen - 1) \o <<1>>),
     FJson("download", "cancel", MkId("download", 0))}

\* A files tunnel whose user issues requests of every kind and may close
\* it, and whose socket may fail and close.
NextFiles ==
    \/ \E type \in {"ls", "mkdir"} : files_send_command(type)
    \/ \E type \in {"upload", "download"} : files_transfer(type, <<>>)
    \/ \E k \in 1..MaxFileReqs : files_dispatch(k)
    \/ \E f \in QueueFrames : files_receive_message(f)
    \/ \E ev \in {"agentlog", "console"} : files_server_event(ev)
    \/ files_sock_on_close
    \/ files_sock_on_error
    \/ files_close
SpecFiles == Init /\ [][NextFiles]_vars

\* ============================================ claims: the request queue
IsStartFrame(f) ==
    ~f.bin /\ (f.action \in {"ls", "mkdir", "upload"} \/ (f.action = "download" /\ f.sub = "start"))
Dispatched(k) == freqs[k].ran = "waiting" /\ freqs'[k].ran = "sent"

\* C12: a request's start frame is written by the step that runs its
\* closure and by no other step; that step happens with the tunnel alive,
\* after the caller's promise of every request issued earlier has settled
\* and before any request issued later is dispatched; and at most one
\* request is dispatched with its outcome still pending.
C12_FifoDispatch ==
    [][ /\ \A k \in DOMAIN freqs :
              Dispatched(k) =>
                  /\ files_alive
                  /\ files_sock = "open" => files_sent' = Append(files_sent, StartFrame(freqs[k]))
                  /\ \A j \in 1..(k - 1) : Ret(freqs[j]).st # "pending"
                  /\ \A j \in (k + 1)..Len(freqs) : freqs[j].ran \in {"waiting", "threw"}
        /\ (Len(files_sent') > Len(files_sent) /\ IsStartFrame(files_sent'[Len(files_sent')]))
              => \E k \in DOMAIN freqs : Dispatched(k)
        /\ Cardinality({k \in DOMAIN freqs' :
                            freqs'[k].ran = "sent" /\ freqs'[k].finished.st = "pending"}) <= 1
      ]_vars
\* A third request's frame is on the wire behind those of two earlier ones.
C12_Witness ==
    /\ Len(freqs) = 3
    /\ \A k \in 1..3 : freqs[k].ran = "sent"
    /\ Len(SelectSeq(files_sent, IsStartFrame)) = 3
    /\ freqs[3].finished.st = "pending"

\* C13 as claimed: once the socket has closed and the reactions to it have
\* run, the caller's promise of every request that was queued at the close
\* is rejected with the closed-connection reason.
C13_CloseRejectsQueued ==
    \A k \in DOMAIN freqs :
        (FilesIdle /\ freqs[k].finished = FOut("rejected", SocketClosedReason, 0))
            => Ret(freqs[k]) = FOut("rejected", SocketClosedReason, 0)

\* ================================================================ upload
\* The bytes a source holds: 0x00, 0x7B ('{') and 0x41 ('A').
Bytes == {0, 123, 65}
RECURSIVE SeqsUpTo(_, _)
SeqsUpTo(S, n) ==
    IF n = 0 THEN {<<>>}
    ELSE LET shorter == SeqsUpTo(S, n - 1)
         IN  shorter \cup {Append(s, b) : s \in {t \in shorter : Len(t) = n - 1}, b \in S}

\* The state after upload(source, target) was called once on an alive
\* files tunnel, for every source of up to MaxSourceLen bytes.
InitUpload ==
    /\ InitSession /\ InitNoFilter /\ InitShell
    /\ files_sock = "open" /\ files_alive = TRUE
    /\ request_id = 0
    /\ \E source \in SeqsUpTo(Bytes, MaxSourceLen) :
          freqs = <<MkFileReq("upload", MkId("upload", 0), "waiting", source)>>
    /\ request_queue = <<1>>
    /\ files_sent = <<>> /\ files_eventer = <<>> /\ files_listeners = <<>>
    /\ uncaught = FALSE

\* The frames of the upload protocol the peer sends.
UploadFrames ==
    {FJson(a, "", MkId("upload", 0)) : a \in {"uploadstart", "uploadack", "uploaddone", "uploaderror"}}
\* The peer answers an upload request with one uploadstart, and sends at
\* most one uploadack more than the data frames it was sent.
PeerFollowsUpload(f) ==
    /\ request_queue # <<>>
    /\ LET r == freqs[Head(request_queue)]
       IN  /\ r.type = "upload" /\ r.ran = "sent"
           /\ f.action = "uploadstart" => r.piped = 0
           /\ f.action = "uploadack" => r.acks <= Len(r.chunks)

NextUpload ==
    \/ files_dispatch(1)
    \/ \E f \in UploadFrames : PeerFollowsUpload(f) /\ files_receive_message(f)
    \/ \E n \in 1..MaxSourceLen : upload_transform(1, n)
    \/ upload_flush(1)
    \/ upload_end(1)
    \/ files_sock_on_close
SpecUpload == InitUpload /\ [][NextUpload]_vars

\* ================================================ claims: upload frames
\* The data frames written to the relay socket, in order.
SentData == SelectSeq(files_sent, LAMBDA f : f.bin)
Escaped(c) == c[1] = 0 \/ c[1] = 123

\* C14: the i-th data frame on the wire carries the i-th chunk the chunker
\* emitted; when that chunk starts with 0x00 or 0x7B the frame is one 0x00
\* byte followed by the chunk unchanged.
C14_EscapedChunk ==
    /\ Len(SentData) <= Len(freqs[1].chunks)
    /\ \A i \in DOMAIN SentData :
          LET c == freqs[1].chunks[i]
              f == SentData[i].bytes
          IN  Escaped(c) =>
                  /\ f = <<0>> \o c
                  /\ Len(f) = Len(c) + 1
                  /\ f[2] = c[1]
\* Chunks starting with 0x00 and with 0x7B have both been sent.
C14_Witness ==
    /\ \E i \in DOMAIN SentData : freqs[1].chunks[i][1] = 0 /\ Len(freqs[1].chunks[i]) = ChunkSize
    /\ \E i \in DOMAIN SentData : freqs[1].chunks[i][1] = 123

\* C15 as claimed: every data frame on the wire starts with 0x00 and has
\* the chunk's first byte as its second byte.
C15_AlwaysZeroFirst ==
    \A i \in DOMAIN SentData :
        /\ SentData[i].bytes[1] = 0
        /\ Len(SentData[i].bytes) > 1
        /\ SentData[i].bytes[2] = freqs[1].chunks[i][1]
\* C15 amended: no data frame on the wire starts with 0x7B, and a chunk
\* whose first byte is neither 0x00 nor 0x7B is transmitted unchanged: the
\* frame's first wire byte is the chunk's first byte.
C15_NeverSentinelFirst ==
    /\ Len(SentData) <= Len(freqs[1].chunks)
    /\ \A i \in DOMAIN SentData :
          LET c == freqs[1].chunks[i]
              f == SentData[i].bytes
          IN  /\ f[1] # 123
              /\ ~Escaped(c) => f = c
\* A chunk starting with 0x41 has been sent.
C15_Witness ==
    \E i \in DOMAIN SentData : freqs[1].chunks[i][1] = 65 /\ SentData[i].bytes[1] = 65

\* ============================================ claims: upload completion
SentDone == SelectSeq(files_sent, LAMBDA f : ~f.bin /\ f.action = "uploaddone")
\* C16: the step that writes uploaddone leaves the source consumed, the
\* chunker ended and the in-flight counter at zero, and uploaddone is
\* written at most once; while the socket is open the counter is the
\* number of data frames written minus the number of uploadacks handled;
\* an uploaderror for the pending upload rejects it.
C16_UploadDone ==
    [][ /\ Len(SentDone') <= 1
        /\ Len(SentDone') > Len(SentDone) =>
              /\ freqs'[1].source = <<>>
              /\ freqs'[1].flushed /\ freqs'[1].complete
              /\ freqs'[1].inflight = 0
        /\ files_sock' = "open" => freqs'[1].inflight = Len(SentData') - freqs'[1].acks
        /\ (/\ request_queue # <<>>
            /\ freqs[1].finished.st = "pending"
            /\ files_receive_message(FJson("uploaderror", "", freqs[1].id)))
              => freqs'[1].finished = FOut("rejected", "error", freqs[1].size)
      ]_vars
\* uploaddone went out after two data frames were acknowledged, one of
\* them while the other was still in flight.
C16_Witness ==
    /\ Len(SentDone) = 1
    /\ freqs[1].acks = 2
    /\ Len(SentData) = 2
    /\ freqs[1].finished.st = "pending"
\* An uploaderror has rejected an upload that had sent data.
C16_WitnessError ==
    /\ freqs[1].finished = FOut("rejected", "error", freqs[1].size)
    /\ freqs[1].size > 0

\* ============================================================== download
\* A data frame as the peer builds it: a header of HeaderLen bytes whose
\* last byte carries the end flag in its low bit, then the payload.
MkDataFrame(payload, final) ==
    <<1>> \o BufAlloc(HeaderLen - 2) \o <<IF final THEN 1 ELSE 0>> \o payload
Payloads == SeqsUpTo({65, 66}, MaxPayloadLen)
DataFrameInputs == Payloads \X BOOLEAN
\* The frames of the download protocol the peer sends: data frames, and
\* start and cancel frames with the id of the download and with another id.
DownloadFrames ==
    {FBin(MkDataFrame(pf[1], pf[2])) : pf \in DataFrameInputs}
        \cup {FJson("download", sub, MkId("download", n)) : sub \in {"start", "cancel"}, n \in 0..1}

\* The state after download(source, target) was called once on an alive
\* files tunnel.
InitDownload ==
    /\ InitSession /\ InitNoFilter /\ InitShell
    /\ files_sock = "open" /\ files_alive = TRUE
    /\ request_id = 0
    /\ freqs = <<MkFileReq("download", MkId("download", 0), "waiting", <<>>)>>
    /\ request_queue = <<1>>
    /\ files_sent = <<>> /\ files_eventer = <<>> /\ files_listeners = <<>>
    /\ uncaught = FALSE

\* The peer sends up to MaxFrames data frames for the download, and a
\* start frame for it at most once, before the data.
PeerFollowsDownload(f) ==
    /\ request_queue # <<>>
    /\ f.bin => Len(freqs[1].frames) < MaxFrames
    /\ (~f.bin /\ f.sub = "start") =>
          /\ freqs[1].frames = <<>>
          /\ \A i \in DOMAIN files_sent : files_sent[i].sub # "startack"

NextDownload ==
    \/ files_dispatch(1)
    \/ \E f \in DownloadFrames : PeerFollowsDownload(f) /\ files_receive_message(f)
    \/ files_sock_on_close
SpecDownload == InitDownload /\ [][NextDownload]_vars

\* ===================================================== claims: download
\* What the peer put into the data frame raw.
PeerSent(raw) == CHOOSE pf \in DataFrameInputs : MkDataFrame(pf[1], pf[2]) = raw
RECURSIVE ConcatPayloads(_)
ConcatPayloads(fr) ==
    IF fr = <<>> THEN <<>> ELSE PeerSent(Head(fr))[1] \o ConcatPayloads(Tail(fr))
SentAcks == SelectSeq(files_sent, LAMBDA f : ~f.bin /\ f.action = "download" /\ f.sub = "ack")

\* C17: the sink holds the payloads of the data frames received so far,
\* concatenated in arrival order; one ack has been written for each
\* non-final frame and none for a final one; and once the final frame has
\* arrived (necessarily last, after k non-final frames and k acks) the sink
\* is ended and the download is resolved with result success and size the
\* number of payload bytes written.
C17_DownloadFrames ==
    LET r == freqs[1]
        nonfinal == SelectSeq(r.frames, LAMBDA raw : ~PeerSent(raw)[2])
    IN  /\ r.sink = ConcatPayloads(r.frames)
        /\ Len(SentAcks) = Len(nonfinal)
        /\ \A i \in DOMAIN r.frames :
              PeerSent(r.frames[i])[2] =>
                  /\ i = Len(r.frames)
                  /\ Len(SentAcks) = i - 1
                  /\ r.sink_ended
                  /\ r.finished = FOut("resolved", "success", Len(r.sink))
\* Two non-final frames and a final one, all with payload, have arrived.
C17_Witness ==
    /\ Len(freqs[1].frames) = 3
    /\ PeerSent(freqs[1].frames[3])[2]
    /\ \A i \in 1..3 : PeerSent(freqs[1].frames[i])[1] # <<>>
    /\ PeerSent(freqs[1].frames[1])[1] # PeerSent(freqs[1].frames[2])[1]
    /\ Len(SentAcks) = 2

\* C18: a cancel frame with the id of the pending download ends the sink,
\* writes nothing and rejects the download with result canceled and size
\* the number of bytes written to the sink so far, and nothing is written
\* afterwards; a cancel frame with another id changes nothing.
C18_Cancel ==
    [][ /\ (/\ request_queue # <<>>
            /\ freqs[1].ran = "sent"
            /\ files_receive_message(FJson("download", "cancel", freqs[1].id)))
              => /\ freqs'[1].sink_ended
                 /\ freqs'[1].sink = freqs[1].sink
                 /\ files_sent' = files_sent
                 /\ freqs'[1].finished = FOut("rejected", "canceled", Len(freqs[1].sink))
        /\ freqs[1].finished.val = "canceled" => files_sent' = files_sent
        /\ (/\ request_queue # <<>>
            /\ files_receive_message(FJson("download", "cancel", MkId("download", 1))))
              => UNCHANGED vars
      ]_vars
\* A download was canceled after a data frame with payload was written and
\* acknowledged.
C18_Witness ==
    /\ freqs[1].finished.val = "canceled"
    /\ freqs[1].sink # <<>>
    /\ Len(SentAcks) = 1
    /\ freqs[1].sink_ended

\* ================================================================== text
\* A string is a sequence of characters, each named by its code point (all
\* below 65536: one UTF-16 unit each, so that an index into the string
\* counts characters).
Replacement == 65533
IsCont(b) == b >= 128 /\ b <= 191
\* buf.toString(): UTF-8 decoding.  A byte that starts no valid sequence
\* becomes U+FFFD.
RECURSIVE Decode(_)
Decode(bytes) ==
    IF bytes = <<>> THEN <<>>
    ELSE LET b == bytes[1]
             n == Len(bytes)
         IN  IF b < 128 THEN <<b>> \o Decode(SubSeq(bytes, 2, n))
             ELSE IF b >= 194 /\ b <= 223 /\ n >= 2 /\ IsCont(bytes[2])
             THEN <<(b - 192) * 64 + (bytes[2] - 128)>> \o Decode(SubSeq(bytes, 3, n))
             ELSE IF b >= 225 /\ b <= 239 /\ n >= 3 /\ IsCont(bytes[2]) /\ IsCont(bytes[3])
             THEN <<(b - 224) * 4096 + (bytes[2] - 128) * 64 + (bytes[3] - 128)>>
                      \o Decode(SubSeq(bytes, 4, n))
             ELSE <<Replacement>> \o Decode(SubSeq(bytes, 2, n))
\* Buffer.from(string): UTF-8 encoding.
RECURSIVE Encode(_)
Encode(text) ==
    IF text = <<>> THEN <<>>
    ELSE LET c == text[1]
             rest == Encode(SubSeq(text, 2, Len(text)))
         IN  IF c < 128 THEN <<c>> \o rest
             ELSE IF c < 2048 THEN <<192 + (c \div 64), 128 + (c % 64)>> \o rest
             ELSE <<224 + (c \div 4096), 128 + ((c \div 64) % 64), 128 + (c % 64)>> \o rest
\* text.match(regex) for a regex that matches the literal text pat: the
\* index of the first occurrence, -1 for null.
Match(text, pat) ==
    LET hits == {i \in 0..(Len(text) - Len(pat)) : SubSeq(text, i + 1, i + Len(pat)) = pat}
    IN  IF hits = {} THEN -1 ELSE CHOOSE i \in hits : \A j \in hits : i <= j

\* ================================================================ _Shell
\* length = null (the default of read).
Null == -1
\* A slice offset from a length: null is converted to 0.
ToOffset(length) == IF length = Null THEN 0 ELSE length

\* The failing branch of check_data: with return_intermediate
\*   obj["data"] = this._buffer.slice(0, length)
\*   this._buffer = this._buffer.slice(length)
\* data "none" is an object without a data field.
FailDataMutantAlwaysTake(buf, length, return_intermediate) ==
    [has |-> return_intermediate, data |-> BufSlice(buf, 0, ToOffset(length)),
     rest |-> BufSlice(buf, ToOffset(length), Len(buf))]
FailData(buf, length, return_intermediate) ==
    IF return_intermediate
    THEN [has |-> TRUE, data |-> BufSlice(buf, 0, ToOffset(length)),
          rest |-> BufSlice(buf, ToOffset(length), Len(buf))]
    ELSE [has |-> FALSE, data |-> <<>>, rest |-> buf]

\* The resolving branch of check_data: `length` bytes from the front, or
\* with length null the whole buffer, which is then replaced by an empty one.
ResolveDataMutantWholeBuffer(buf, length) == [data |-> buf, rest |-> <<>>]
ResolveDataMutantNoNullCase(buf, length) ==
    [data |-> BufSlice(buf, 0, ToOffset(length)), rest |-> BufSlice(buf, ToOffset(length), Len(buf))]
ResolveData(buf, length) ==
    IF length # Null
    THEN [data |-> BufSlice(buf, 0, length), rest |-> BufSlice(buf, length, Len(buf))]
    ELSE [data |-> buf, rest |-> <<>>]

\* A call of read(length, timeout, return_intermediate): timed is
\* timeout !== null, expired is new Date() - start > timeout.
MkRead(length, timed, return_intermediate) ==
    [length |-> length, timed |-> timed, return_intermediate |-> return_intermediate,
     expired |-> FALSE, st |-> "polling", reason |-> "", has_data |-> FALSE, data |-> <<>>]

\* check_data() of the read rd on the buffer buf: the read afterwards and
\* the buffer afterwards.  readyState > 1 is CLOSING or CLOSED.
check_data(rd, buf) ==
    IF (rd.timed /\ rd.expired) \/ shell_sock \in {"closing", "closed"}
    THEN LET res == FailData(buf, rd.length, rd.return_intermediate)
         IN  [rd |-> [rd EXCEPT !.st = "rejected",
                                !.reason = IF shell_sock = "open" THEN "timeout" ELSE "closed",
                                !.has_data = res.has, !.data = res.data],
              buf |-> res.rest]
    ELSE IF rd.length # Null /\ Len(buf) < rd.length
    THEN [rd |-> rd, buf |-> buf]
    ELSE LET res == ResolveData(buf, rd.length)
         IN  [rd |-> [rd EXCEPT !.st = "resolved", !.has_data = TRUE, !.data = res.data],
              buf |-> res.rest]

\* async read(length, timeout, return_intermediate): the first check_data
\* runs in the call, before any time has passed.
shell_read(length, timed, return_intermediate) ==
    /\ Len(reads) < MaxReads
    /\ LET res == check_data(MkRead(length, timed, return_intermediate), shell_buffer)
       IN  /\ reads' = Append(reads, res.rd)
           /\ shell_buffer' = res.buf
    /\ UNCHANGED shell_sock
    /\ UNCHANGED <<sessionVars, tunnelVars, filterVars, filesVars>>

\* The 100 ms timer of a polling read fires: check_data again.
shell_poll(i) ==
    /\ i \in DOMAIN reads
    /\ reads[i].st = "polling"
    /\ LET res == check_data(reads[i], shell_buffer)
       IN  /\ reads' = [reads EXCEPT ![i] = res.rd]
           /\ shell_buffer' = res.buf
    /\ UNCHANGED shell_sock
    /\ UNCHANGED <<sessionVars, tunnelVars, filterVars, filesVars>>

\* Time passes beyond the timeout of a polling read.
shell_tick(i) ==
    /\ i \in DOMAIN reads
    /\ reads[i].st = "polling" /\ reads[i].timed /\ ~reads[i].expired
    /\ reads' = [reads EXCEPT ![i].expired = TRUE]
    /\ UNCHANGED <<shell_sock, shell_buffer>>
    /\ UNCHANGED <<sessionVars, tunnelVars, filterVars, filesVars>>

\* _Shell._receive_message once initialized: a control command is ignored,
\* any other data is appended to the buffer as
\*   Buffer.from(raw_data.toString())
shell_receive_message(ctrl, bytes) ==
    /\ shell_sock \in {"open", "closing"}
    /\ shell_buffer' = IF ctrl THEN shell_buffer ELSE shell_buffer \o Encode(Decode(bytes))
    /\ UNCHANGED <<shell_sock, reads>>
    /\ UNCHANGED <<sessionVars, tunnelVars, filterVars, filesVars>>

\* _Shell.close(): the socket goes to CLOSING.
shell_close ==
    /\ shell_sock = "open"
    /\ shell_sock' = "closing"
    /\ UNCHANGED <<shell_buffer, reads>>
    /\ UNCHANGED <<sessionVars, tunnelVars, filterVars, filesVars>>

\* The shell's socket is closed (by the peer, or after close()).
shell_sock_on_close ==
    /\ shell_sock \in {"open", "closing"}
    /\ shell_sock' = "closed"
    /\ UNCHANGED <<shell_buffer, reads>>
    /\ UNCHANGED <<sessionVars, tunnelVars, filterVars, filesVars>>

\* The lengths a read is called with: omitted, or a number of bytes.
ReadLengths == {Null} \cup 1..MaxBufLen
NextShell ==
    \/ \E length \in ReadLengths, timed \in BOOLEAN, return_intermediate \in BOOLEAN :
          shell_read(length, timed, return_intermediate)
    \/ \E i \in 1..MaxReads : shell_poll(i)
    \/ \E i \in 1..MaxReads : shell_tick(i)
    \/ \E ctrl \in BOOLEAN, b \in {65, 66} :
          Len(shell_buffer) < MaxBufLen /\ shell_receive_message(ctrl, <<b>>)
    \/ shell_close
    \/ shell_sock_on_close
SpecShell == Init /\ [][NextShell]_vars

\* ====================================================== claims: read
\* The read that has been called in this step.
ReadCalled == Len(reads') = Len(reads) + 1
Fails(i) ==
    /\ i \in DOMAIN reads'
    /\ reads'[i].st = "rejected"
    /\ i \in DOMAIN reads => reads[i].st = "polling"
Shorter(a, b) == IF a < b THEN a ELSE b
\* C20: in the step in which a read fails, by timeout or by closure:
\* without return_intermediate the buffer is unchanged and the failure
\* carries no data; with it the failure carries the first `length` bytes of
\* the buffer, or all of it when it is shorter, and the buffer keeps the
\* rest.
C20_FailedRead ==
    [][ \A i \in 1..MaxReads :
            Fails(i) =>
                /\ reads'[i].reason = (IF shell_sock = "open" THEN "timeout" ELSE "closed")
                /\ ~reads'[i].return_intermediate =>
                      /\ shell_buffer' = shell_buffer
                      /\ ~reads'[i].has_data
                /\ reads'[i].return_intermediate =>
                      /\ reads'[i].has_data
                      /\ reads'[i].data \o shell_buffer' = shell_buffer
                      /\ reads'[i].length # Null =>
                            Len(reads'[i].data) = Shorter(reads'[i].length, Len(shell_buffer))
      ]_vars
\* A read of one byte with return_intermediate has failed by closure with
\* two bytes in the buffer: it took the first and left the second.
C20_Witness ==
    /\ reads # <<>>
    /\ reads[1].st = "rejected" /\ reads[1].reason = "closed"
    /\ reads[1].return_intermediate /\ reads[1].length = 1
    /\ Len(reads[1].data) = 1
    /\ Len(shell_buffer) = 1 /\ shell_buffer[1] # reads[1].data[1]
\* A read of two bytes without return_intermediate has timed out with one
\* byte in the buffer, which is still there.
C20_WitnessTimeout ==
    /\ reads # <<>>
    /\ reads[1].st = "rejected" /\ reads[1].reason = "timeout"
    /\ ~reads[1].return_intermediate /\ reads[1].length = 2
    /\ Len(shell_buffer) = 1

\* ========================================================== _Shell.expect
\* The length of the read by which a failing expect collects what is
\* buffered.
IntermediateLen == 1024
\* The regexes in use match the literal prompt "$".
Patterns == {<<36>>}

\* A call of expect(regex, timeout, return_intermediate), kept in `reads`
\* with st "expecting" while it polls and "draining" while its failure
\* waits for read(1024, 100, true).  For a call made by
\* _SmartShell.send_command: smart is TRUE, written the bytes it wrote to
\* the socket (command the text it was called with), and result the
\* promise it returns.  warmup is 1 and 2 for the two calls the
\* _SmartShell constructor makes, 0 for every other call.
MkExpect(regex, timed, return_intermediate) ==
    [length |-> Null, regex |-> regex, timed |-> timed,
     return_intermediate |-> return_intermediate,
     expired |-> FALSE, st |-> "expecting", reason |-> "", has_data |-> FALSE, data |-> <<>>,
     smart |-> FALSE, warmup |-> 0, command |-> <<>>, written |-> <<>>,
     result |-> [st |-> "pending", val |-> "", data |-> <<>>]]

\* The continuation of send_command on the data expect resolved with:
\*   let m = data.toString().match(this._regex)
\*   return data.slice(0, m.index)
\* m is null when the data holds no match: m.index throws.
SmartResult(got, regex) ==
    LET m == Match(Decode(got), regex)
    IN  IF m = -1 THEN [st |-> "rejected", val |-> "TypeError", data |-> <<>>]
        ELSE [st |-> "resolved", val |-> "", data |-> BufSlice(got, 0, m)]
\* The promise send_command returns once its expect has settled.
SmartSettled(e) ==
    IF ~e.smart \/ e.st \notin {"resolved", "rejected"} THEN e
    ELSE IF e.st = "rejected"
    THEN [e EXCEPT !.result = [st |-> "rejected", val |-> e.reason, data |-> <<>>]]
    ELSE [e EXCEPT !.result = SmartResult(e.data, e.regex)]

\* check_data() of the expect e on the buffer buf: the expect afterwards
\* and the buffer afterwards.  A match is consumed by
\*   this.read(m.index + m[0].length)
\* whose own check_data runs in the call.
expect_check(e, buf) ==
    IF (e.timed /\ e.expired) \/ shell_sock \in {"closing", "closed"}
    THEN LET obj == [e EXCEPT !.reason = IF shell_sock = "open" THEN "timeout" ELSE "closed"]
         IN  IF ~e.return_intermediate
             THEN [rd |-> SmartSettled([obj EXCEPT !.st = "rejected"]), buf |-> buf]
             ELSE LET res == check_data(MkRead(IntermediateLen, TRUE, TRUE), buf)
                  IN  IF res.rd.st = "polling"
                      THEN [rd |-> [obj EXCEPT !.st = "draining"], buf |-> buf]
                      ELSE [rd |-> SmartSettled([obj EXCEPT !.st = "rejected", !.has_data = TRUE,
                                                            !.data = res.rd.data]),
                            buf |-> res.buf]
    ELSE LET m == Match(Decode(buf), e.regex)
         IN  IF m = -1 THEN [rd |-> e, buf |-> buf]
             ELSE LET res == check_data(MkRead(m + Len(e.regex), FALSE, FALSE), buf)
                  IN  IF res.rd.st = "resolved"
                      THEN [rd |-> SmartSettled([e EXCEPT !.st = "resolved", !.has_data = TRUE,
                                                          !.data = res.rd.data]),
                            buf |-> res.buf]
                      ELSE [rd |-> e, buf |-> buf]

\* async expect(regex, timeout, return_intermediate): the first
\* check_data runs in the call.
shell_expect(regex, timed, return_intermediate) ==
    /\ Len(reads) < MaxReads
    /\ LET res == expect_check(MkExpect(regex, timed, return_intermediate), shell_buffer)
       IN  /\ reads' = Append(reads, res.rd)
           /\ shell_buffer' = res.buf
    /\ UNCHANGED shell_sock
    /\ UNCHANGED <<sessionVars, tunnelVars, filterVars, filesVars>>

\* The 100 ms timer of a polling expect fires: check_data again.
shell_expect_poll(i) ==
    /\ i \in DOMAIN reads
    /\ reads[i].st = "expecting"
    /\ LET res == expect_check(reads[i], shell_buffer)
       IN  /\ reads' = [reads EXCEPT ![i] = res.rd]
           /\ shell_buffer' = res.buf
    /\ UNCHANGED shell_sock
    /\ UNCHANGED <<sessionVars, tunnelVars, filterVars, filesVars>>

\* Time passes beyond the timeout of a polling expect.
shell_expect_tick(i) ==
    /\ i \in DOMAIN reads
    /\ reads[i].st = "expecting" /\ reads[i].timed /\ ~reads[i].expired
    /\ reads' = [reads EXCEPT ![i].expired = TRUE]
    /\ UNCHANGED <<shell_sock, shell_buffer>>
    /\ UNCHANGED <<sessionVars, tunnelVars, filterVars, filesVars>>

\* read(1024, 100, true) of a failing expect ends, its 100 ms over: the
\* expect is rejected with the data that read took.
shell_expect_drain(i) ==
    /\ i \in DOMAIN reads
    /\ reads[i].st = "draining"
    /\ LET res == check_data([MkRead(IntermediateLen, TRUE, TRUE) EXCEPT !.expired = TRUE],
                             shell_buffer)
       IN  /\ reads' = [reads EXCEPT ![i] =
                           SmartSettled([reads[i] EXCEPT !.st = "rejected", !.has_data = TRUE,
                                                         !.data = res.rd.data])]
           /\ shell_buffer' = res.buf
    /\ UNCHANGED shell_sock
    /\ UNCHANGED <<sessionVars, tunnelVars, filterVars, filesVars>>

\* --------------------------------------------------------- _SmartShell
\* command.endsWith("\n") ? command : command + "\n"
WithNewline(command) ==
    IF command # <<>> /\ command[Len(command)] = 10 THEN command ELSE command \o <<10>>

\* async send_command(command): the command is written (ws writes nothing
\* outside the OPEN state) and the ready regex expected.
send_command_call(command, regex) ==
    /\ LET e == [MkExpect(regex, FALSE, FALSE) EXCEPT
                    !.smart = TRUE, !.command = command,
                    !.written = IF shell_sock = "open" THEN Encode(WithNewline(command)) ELSE <<>>]
           res == expect_check(e, shell_buffer)
       IN  /\ reads' = Append(reads, res.rd)
           /\ shell_buffer' = res.buf
    /\ UNCHANGED shell_sock
    /\ UNCHANGED <<sessionVars, tunnelVars, filterVars, filesVars>>

smart_send_command(command, regex) ==
    /\ Len(reads) < MaxReads
    /\ send_command_call(command, regex)

\* The data a shell prints: "A", the prompt "$", and "e" with an acute
\* accent, two bytes in UTF-8, in one frame or split over two.
Outputs == {<<65>>, <<36>>, <<195, 169>>, <<195>>, <<169>>}
\* The commands written: "a" and "a\n".
Commands == {<<97>>, <<97, 10>>}

\* A shell whose user calls expect and, through a smart shell,
\* send_command, and may close it.
NextExpect ==
    \/ \E regex \in Patterns, timed \in BOOLEAN, return_intermediate \in BOOLEAN :
          shell_expect(regex, timed, return_intermediate)
    \/ \E command \in Commands, regex \in Patterns : smart_send_command(command, regex)
    \/ \E i \in 1..MaxReads : shell_expect_poll(i)
    \/ \E i \in 1..MaxReads : shell_expect_tick(i)
    \/ \E i \in 1..MaxReads : shell_expect_drain(i)
    \/ \E ctrl \in BOOLEAN, bytes \in Outputs :
          Len(shell_buffer) + Len(bytes) <= MaxTextLen /\ shell_receive_message(ctrl, bytes)
    \/ shell_close
    \/ shell_sock_on_close
SpecExpect == Init /\ [][NextExpect]_vars

\* ==================================================== claims: expect
\* The expect (by its index) that resolves in this step.
ExpectResolves(i) ==
    /\ i \in DOMAIN reads'
    /\ reads'[i].st = "resolved"
    /\ i \in DOMAIN reads => reads[i].st = "expecting"
\* The text up to the end of the first match of pat.
ThroughMatch(text, pat) == SubSeq(text, 1, Match(text, pat) + Len(pat))

\* C21 as claimed: an expect that resolves does so with the prefix of the
\* buffer that, read as text, ends at the end of the first match, and
\* leaves exactly the bytes after that prefix in the buffer.
C21_ExpectPrefix ==
    [][ \A i \in 1..MaxReads :
            ExpectResolves(i) =>
                /\ Match(Decode(shell_buffer), reads'[i].regex) # -1
                /\ Decode(reads'[i].data) = ThroughMatch(Decode(shell_buffer), reads'[i].regex)
                /\ reads'[i].data \o shell_buffer' = shell_buffer
      ]_vars


\* ==================================================== claims: closed shell
\* The buffer holds what a read of this length asks for.
Satisfied(length, buf) == length = Null \/ length <= Len(buf)
\* C22 as claimed: a read called after close(), or after the socket has
\* closed, that the buffered data satisfies is resolved with that data
\* (the first length bytes, or the whole buffer when length is omitted),
\* never rejected with reason "closed".
C22_ReadAfterClose ==
    [][ (/\ ReadCalled
         /\ shell_sock \in {"closing", "closed"}
         /\ shell_buffer # <<>>
         /\ Satisfied(reads'[Len(reads')].length, shell_buffer))
            => /\ reads'[Len(reads')].st = "resolved"
               /\ reads'[Len(reads')].data = ResolveData(shell_buffer, reads'[Len(reads')].length).data
      ]_vars


\* ==================================================== claims: smart shell
\* The text before the first match of pat.
BeforeMatch(text, pat) == SubSeq(text, 1, Match(text, pat))
\* C23 as claimed: send_command(text) on an open shell writes text
\* followed by exactly one newline, added only when text does not end
\* with one; and when its expect resolves, the promise it returned is
\* resolved with the bytes of the buffer that precede the match of the
\* ready pattern, the prompt not included.
C23_SendCommand ==
    [][ \A i \in 1..MaxReads :
            /\ (/\ i \notin DOMAIN reads /\ i \in DOMAIN reads'
                /\ reads'[i].smart /\ shell_sock = "open")
                  => reads'[i].written =
                        Encode(IF reads'[i].command[Len(reads'[i].command)] = 10
                               THEN reads'[i].command
                               ELSE reads'[i].command \o <<10>>)
            /\ (ExpectResolves(i) /\ reads'[i].smart)
                  => /\ reads'[i].result.st = "resolved"
                     /\ reads'[i].result.data =
                           Encode(BeforeMatch(Decode(shell_buffer), reads'[i].regex))
      ]_vars


\* ======================================================= lists and sets
\* The lists and sets a filter is given and an event holds: numbers, in
\* lists of up to MaxListLen entries.
Numbers == {"1", "2"}
Lists == {Arr(s) : s \in SeqsUpTo({Leaf(x) : x \in Numbers}, MaxListLen)}
Sets == {SetVal(s) : s \in {t \in SeqsUpTo({Leaf(x) : x \in Numbers}, MaxListLen) :
                                \A i, j \in DOMAIN t : t[i] = t[j] => i = j}}

\* listen_to_events(f, {event: p}) for a list or a set p, tried on an
\* event whose `event` field is a list or a number.
InitCollections ==
    /\ InitSession
    /\ InitFiles
    /\ InitShell
    /\ filter \in {Obj([key \in {"event"} |-> p]) : p \in Lists \cup Sets}
    /\ data \in {Obj([key \in {"event"} |-> c]) : c \in Lists \cup {Leaf(x) : x \in Numbers}}
    /\ matched = "none"
    /\ InitNoSubs
SpecCollections == InitCollections /\ [][NextFilter]_vars

\* ================================================ claims: lists and sets
IsList(x) == x.k = "arr"
Length(x) == Cardinality(DOMAIN x.v)
Elements(x) == {x.v[key] : key \in DOMAIN x.v}
\* C28 as claimed: a filter value that is a list matches a candidate only
\* if the candidate is a list of the same length whose entry at each index
\* equals the filter's entry at that index.
C28_ListEquality ==
    (matched = "called" /\ IsList(filter.v["event"])) =>
        LET p == filter.v["event"]
            c == data.v["event"]
        IN  /\ IsList(c)
            /\ Length(c) = Length(p)
            /\ \A key \in DOMAIN p.v : c.v[key] = p.v[key]

\* C29 as claimed: a filter value that is a set matches a candidate list
\* only if the list holds, for every element of the set, an element equal
\* to it.
C29_SetContains ==
    (matched = "called" /\ filter.v["event"].k = "set" /\ IsList(data.v["event"])) =>
        \A e \in Elements(filter.v["event"]) : \E e2 \in Elements(data.v["event"]) : e2 = e

\* ================================================ claims: pending waiters
\* C25 as claimed: once the session socket has closed or failed, no
\* request is left pending, the unnamespaced ones
\* (_send_command_no_response_id) included: each was rejected with a
\* SocketError unless it had settled before.
C25_NoWaiterSurvives ==
    sock \in {"closed", "errored"} =>
        \A i \in DOMAIN reqs :
            /\ reqs[i].out.st # "pending"
            /\ reqs[i].p.st = "rejected" => IsSocketError(reqs[i].p.err)

\* C26 as claimed: the in-flight table holds exactly the ids of the
\* correlated requests that are unsettled: every id in it is the id of a
\* request whose promise is pending, and every pending correlated request
\* has its id in it.
C26_InflightExact ==
    /\ \A id \in inflight : \E i \in CmdReqs : reqs[i].key = id /\ reqs[i].out.st = "pending"
    /\ \A i \in CmdReqs : reqs[i].out.st = "pending" => reqs[i].key \in inflight


\* =============================================== claims: transport error
\* The 'error' handler of the session socket runs in this step.
ErrorStep == sock # "errored" /\ sock' = "errored"
\* C30 as claimed: on a transport error the alive flag drops, the readiness
\* future, if unsettled, is rejected with the error code, every pending
\* request is rejected with an outcome that carries the error code, every
\* on_close listener is called, and close() is called on every tunnel held
\* in the three registries.
C30_ErrorFanOut ==
    [][ErrorStep =>
            /\ ~alive'
            /\ initialized.st = "pending" => initialized' = Rejected(ErrCode)
            /\ \A i \in DOMAIN reqs :
                  reqs[i].p.st = "pending" => reqs'[i].p = Rejected(ErrCode)
            /\ \A i \in DOMAIN close_cbs : close_cbs'[i] = close_cbs[i] + 1
            /\ \A t \in Registered : tunnels'[t].sock \in {"closing", "closed"}
       ]_vars


\* ============================================================ event bus
\* The frames a server sends while listeners are installed: pushes of two
\* kinds and a reply, each with and without an echoed id, and the two
\* frames the session keeps for itself.
EventFilters == {NoFilter, Obj([key \in {"action"} |-> Leaf("event")])}
EventFrames ==
    {UserinfoFrame, MkFrame("serverinfo", NoId, NoId, "")}
        \cup {MkFrame(a, r, NoId, "") : a \in {"event", "msg", "nodes"}, r \in {NoId, MkId("x", 1)}}
\* No listener has been called with MaxEvents frames yet.
EventsBounded == \A i \in DOMAIN subs : Len(subs[i].calls) < MaxEvents

\* The session with callers that listen to events and stop listening, and
\* one request, of either kind, whose reply is among the frames.
NextEvents ==
    \/ sock_on_open
    \/ sock_on_close
    \/ \E flt \in EventFilters : listen(flt)
    \/ \E i \in 1..MaxSubs : stop_listening_to_events(i)
    \/ \E f \in EventFrames : EventsBounded /\ receive_message(f)
    \/ reqs = <<>> /\ send_command(FALSE)
    \/ reqs = <<>> /\ send_command_no_response_id(FALSE)
SpecEvents == Init /\ [][NextEvents]_vars

\* ==================================================== claims: event bus
\* A frame is received in this step.
Received(f) == receive_message(f)
\* The filter of a listener lets the frame through.
Passes(flt, f) == flt = NoFilter \/ DeepSubset(flt, FrameObj(f))
\* C24: when a push frame (event, msg, interuser) arrives, every listener
\* of listen_to_events that is registered at that moment and whose filter
\* the frame passes is called with it once, after the frames it was called
\* with before; no other listener is called; a listener that
\* stop_listening_to_events has removed is never called again; and no step
\* but the arrival of a frame calls a listener.
C24_EventDelivery ==
    /\ [][ \A f \in EventFrames :
              Received(f) =>
                  \A i \in DOMAIN subs :
                      subs'[i].calls =
                          IF IsPush(f) /\ subs[i].on /\ Passes(subs[i].filter, f)
                          THEN Append(subs[i].calls, f)
                          ELSE subs[i].calls
         ]_vars
    /\ [][ \A i \in DOMAIN subs :
              /\ ~subs[i].on => (~subs'[i].on /\ subs'[i].calls = subs[i].calls)
              /\ (~\E f \in EventFrames : Received(f)) => subs'[i].calls = subs[i].calls
         ]_vars
\* Two listeners, the first without a filter and since removed, the second
\* for the action "event": the first was called with a msg push, which the
\* second was not called with; two different event pushes that came after
\* the removal reached the second alone, in their order.
C24_Witness ==
    /\ Len(subs) = 2
    /\ subs[1].filter = NoFilter /\ ~subs[1].on
    /\ subs[2].filter # NoFilter /\ subs[2].on
    /\ Len(subs[1].calls) = 1 /\ subs[1].calls[1].action = "msg"
    /\ Len(subs[2].calls) = 2
    /\ subs[2].calls[1].action = "event" /\ subs[2].calls[1].responseid = NoId
    /\ subs[2].calls[2].action = "event" /\ subs[2].calls[2].responseid # NoId

\* ====================================================== claims: routing
\* The latest frame was emitted under this event name.
Under(topic) == \E k \in DOMAIN emitted' : emitted'[k] = topic
HasId(f) == f.responseid # NoId \/ f.tag # NoId
\* serverinfo and userinfo reach no waiter and no listener.
KeptFromAll(f) == Handled(f) => (emitted' = <<ActKey("raw")>> /\ reqs' = reqs /\ subs' = subs)
\* Every other frame goes out under "server_event" exactly when it is a
\* push frame, and under its responseid (or else its tag) when it has one,
\* push frame or not.
ToBusAndWaiter(f) ==
    ~Handled(f) =>
        /\ Under(ActKey("server_event")) <=> IsPush(f)
        /\ HasId(f) => Under(Echoed(f))
        /\ ~HasId(f) => \A id \in Ids : ~Under(id)

\* C27 as claimed: a frame is emitted under its own action name exactly
\* when it carries no responseid or tag and is not a push frame.
C27_RoutingAsClaimed ==
    [][ \A f \in EventFrames :
            Received(f) =>
                /\ KeptFromAll(f)
                /\ ToBusAndWaiter(f)
                /\ Under(ActKey(f.action)) <=> (~Handled(f) /\ ~HasId(f) /\ ~IsPush(f))
      ]_vars
\* C27, amended: a frame is emitted under its own action name exactly when
\* it carries no responseid or tag, a push frame included: such a push
\* frame goes out under "server_event" and under its action name.
C27_Routing ==
    [][ \A f \in EventFrames :
            Received(f) =>
                /\ KeptFromAll(f)
                /\ ToBusAndWaiter(f)
                /\ Under(ActKey(f.action)) <=> (~Handled(f) /\ ~HasId(f))
      ]_vars
\* An event push without an id has arrived: a listener was called with it,
\* and it went out under "server_event" and then under "event".
C27_Witness ==
    /\ emitted = <<ActKey("raw"), ActKey("server_event"), ActKey("event")>>
    /\ \E i \in DOMAIN subs :
          /\ subs[i].calls # <<>>
          /\ subs[i].calls[Len(subs[i].calls)] = MkFrame("event", NoId, NoId, "")
\* A msg push that echoes the id of a pending request has arrived: it went
\* to a listener and resolved the request.
C27_WitnessBoth ==
    /\ emitted = <<ActKey("raw"), ActKey("server_event"), MkId("x", 1)>>
    /\ \E i \in DOMAIN subs : subs[i].calls = <<MkFrame("msg", MkId("x", 1), NoId, "")>>
    /\ \E i \in DOMAIN reqs : reqs[i].p = Resolved(MkFrame("msg", MkId("x", 1), NoId, ""))


\* ============================================== claims: read with a length
\* check_data of the read i runs in this step: in the call of read, or
\* when its 100 ms timer fires.
Checks(i) == (i \notin DOMAIN reads /\ i \in DOMAIN reads') \/ shell_poll(i)
\* The deadline of the read i had passed before this step.
Overdue(i) == i \in DOMAIN reads /\ reads[i].timed /\ reads[i].expired
\* The read i is settled in this step.
Settles(i, st) ==
    /\ i \in DOMAIN reads' /\ reads'[i].st = st
    /\ i \in DOMAIN reads => reads[i].st = "polling"
\* C32: a read with a length, whenever it looks at the buffer of an open
\* shell before its deadline, resolves if at least `length` bytes are
\* buffered, with exactly the first `length` bytes, which leave the
\* buffer while the rest stays, and otherwise keeps polling and leaves the
\* buffer alone; it never resolves in another way; and it fails only with
\* reason "timeout", its deadline passed on an open shell, or "closed",
\* the socket closing or closed.
C32_ReadLength ==
    [][ \A i \in 1..MaxReads :
            (i \in DOMAIN reads' /\ reads'[i].length # Null) =>
                LET length == reads'[i].length
                    enough == length <= Len(shell_buffer)
                IN  /\ Settles(i, "resolved") =>
                          /\ Checks(i) /\ shell_sock = "open" /\ ~Overdue(i) /\ enough
                          /\ reads'[i].data = SubSeq(shell_buffer, 1, length)
                          /\ shell_buffer' = SubSeq(shell_buffer, length + 1, Len(shell_buffer))
                    /\ (Checks(i) /\ shell_sock = "open" /\ ~Overdue(i)) =>
                          IF enough THEN reads'[i].st = "resolved"
                          ELSE reads'[i].st = "polling" /\ shell_buffer' = shell_buffer
                    /\ Settles(i, "rejected") =>
                          /\ Checks(i)
                          /\ Overdue(i) \/ shell_sock # "open"
                          /\ reads'[i].reason = IF shell_sock = "open" THEN "timeout" ELSE "closed"
      ]_vars
\* A read of one byte has resolved with the first of two different bytes;
\* the second is still buffered.
C32_Witness ==
    /\ shell_sock = "open"
    /\ reads # <<>>
    /\ reads[1].length = 1 /\ reads[1].st = "resolved"
    /\ reads[1].data = <<65>>
    /\ shell_buffer = <<66>>


\* ==================================================== claims: the buffer
\* C35 as claimed: a frame that is no control frame is appended to the
\* buffer as it arrived, a control frame leaves the buffer alone; and a
\* step in which a read or an expect hands out data takes exactly that
\* data from the front of the buffer, every other step of theirs leaving
\* the buffer as it is.
C35_BufferIsStream ==
    [][ /\ \A ctrl \in BOOLEAN, bytes \in Outputs :
              shell_receive_message(ctrl, bytes) =>
                  shell_buffer' = IF ctrl THEN shell_buffer ELSE shell_buffer \o bytes
        /\ (~\E ctrl \in BOOLEAN, bytes \in Outputs : shell_receive_message(ctrl, bytes)) =>
              \E taken \in {<<>>} \cup {reads'[i].data : i \in DOMAIN reads'} :
                  /\ taken \o shell_buffer' = shell_buffer
                  /\ taken # <<>> =>
                        \E i \in DOMAIN reads' :
                            /\ reads'[i].data = taken /\ reads'[i].has_data
                            /\ i \in DOMAIN reads => ~reads[i].has_data
      ]_vars


\* ------------------------------------------------------------------
\* claims: the recording flag of a tunnel
\* ------------------------------------------------------------------

\* C31: exactly one inbound frame of a tunnel, the first, is consumed as
\* the recording flag: once the frame that resolved readiness was handled,
\* no later frame changes recorded or echoes the protocol again, also when
\* it arrives right after the first frame, before any other callback.
C31_OneFlagFrame ==
    [][\A t \in DOMAIN tunnels :
          tunnels[t].initialized.st = "resolved" =>
              /\ tunnels'[t].recorded = tunnels[t].recorded
              /\ tunnels'[t].echoes = tunnels[t].echoes]_vars


\* ------------------------------------------------------------------
\* _SmartShell from its construction
\* ------------------------------------------------------------------
MaxSmartReads == 3

\* this._shell.expect(this._regex) of the constructor, the n-th of two.
WarmupExpect(n, regex) == [MkExpect(regex, FALSE, FALSE) EXCEPT !.warmup = n]

\* The state smart_shell() returns in: `new _SmartShell(_shell, regex)` ran
\* in the continuation of `await _Shell.create(...)`, on an open shell that
\* has received nothing but the recording flag, and made its first expect.
InitSmart ==
    /\ InitSession
    /\ InitNoFilter
    /\ InitFiles
    /\ shell_sock = "open"
    /\ shell_buffer = <<>>
    /\ \E regex \in Patterns : reads = <<expect_check(WarmupExpect(1, regex), <<>>).rd>>

\* The reaction the constructor attaches to its first expect,
\*   .then((data) => { this._shell.expect(this._regex) })
\* is due: the first expect has resolved and the second was not made.
WarmupReaction ==
    /\ \E i \in DOMAIN reads : reads[i].warmup = 1 /\ reads[i].st = "resolved"
    /\ ~\E i \in DOMAIN reads : reads[i].warmup = 2
smart_warmup_then ==
    /\ WarmupReaction
    /\ LET first == CHOOSE i \in DOMAIN reads : reads[i].warmup = 1
           res == expect_check(WarmupExpect(2, reads[first].regex), shell_buffer)
       IN  /\ reads' = Append(reads, res.rd)
           /\ shell_buffer' = res.buf
    /\ UNCHANGED shell_sock
    /\ UNCHANGED <<sessionVars, tunnelVars, filterVars, filesVars>>

\* A warm-up expect of the constructor has not settled, or is yet to be made.
WarmupOutstanding ==
    \/ WarmupReaction
    \/ \E i \in DOMAIN reads : reads[i].warmup > 0 /\ reads[i].st = "expecting"

\* send_command of the smart shell smart_shell() returned.
smart_shell_send_command(command, regex) ==
    /\ Len(reads) < MaxSmartReads
    /\ ~WarmupReaction
    /\ send_command_call(command, regex)

\* The smart shell from the return of smart_shell(): its user sends
\* commands, the shell prints, timers fire, the shell is closed.  Timers and
\* frames wait for the reactions of promises.
NextSmart ==
    \/ smart_warmup_then
    \/ \E command \in Commands, regex \in Patterns : smart_shell_send_command(command, regex)
    \/ \E i \in 1..MaxSmartReads : ~WarmupReaction /\ shell_expect_poll(i)
    \/ \E bytes \in Outputs :
          /\ ~WarmupReaction
          /\ Len(shell_buffer) + Len(bytes) <= MaxTextLen
          /\ shell_receive_message(FALSE, bytes)
    \/ ~WarmupReaction /\ shell_close
    \/ ~WarmupReaction /\ shell_sock_on_close
SpecSmart == InitSmart /\ [][NextSmart]_vars

\* C33: the two warm-up expects of a smart shell are over before an expect
\* of send_command looks at the buffer: no expect made by send_command is
\* polling while a warm-up expect is polling or yet to be made.
C33_WarmupFirst ==
    \A i \in DOMAIN reads :
        reads[i].smart /\ reads[i].st = "expecting" => ~WarmupOutstanding


\* ------------------------------------------------------------------
\* interuser, and sending on a session that is not alive
\* ------------------------------------------------------------------
\* interuser(data, {session, user}): not async, it throws or returns
\* undefined; the outcome is kept in reqs as a settled request of kind
\* "interuser".  target says whether a session or a user was given;
\* without one the code evaluates `throw ValueError(...)`, a class called
\* without `new`, which raises a TypeError.
InteruserOutcomeMutantNoAliveCheck(target) ==
    IF ~target THEN Rejected("TypeError") ELSE Resolved(NoFrame)
InteruserOutcome(target) ==
    IF ~alive THEN Rejected(SocketClosed)
    ELSE IF ~target THEN Rejected("TypeError")
    ELSE Resolved(NoFrame)
interuser(target) ==
    /\ Len(reqs) < MaxReqs
    /\ reqs' = Append(reqs, MkReq("interuser", NoId, "none", InteruserOutcome(target), 0))
    /\ sent' = IF InteruserOutcome(target).st = "resolved"
               THEN Written(MkFrame("interuser", NoId, NoId, ""))
               ELSE sent
    /\ UNCHANGED <<command_id, inflight, eventer>>
    /\ UNCHANGED <<sock, alive, initialized, socket_open, got_userinfo, close_cbs>>
    /\ UNCHANGED <<tunnelVars, filterVars, filesVars, shellVars>>

\* A session whose caller sends requests of the three kinds at any time.
NextAlive ==
    \/ sock_on_open
    \/ sock_on_close
    \/ sock_on_error
    \/ \E f \in CoreFrames : receive_message(f)
    \/ send_command(FALSE)
    \/ send_command_no_response_id(FALSE)
    \/ \E target \in BOOLEAN : interuser(target)
SpecAlive == Init /\ [][NextAlive]_vars

\* C34: _send_command, _send_command_no_response_id and interuser called
\* while alive is false fail with SocketError "Socket Closed" and change
\* nothing else: nothing is written, no listener is registered, the
\* in-flight table, the counter and the earlier requests are as before.
\* Once alive has gone from true to false it stays false.
C34_DeadSessionRefuses ==
    /\ [][~alive /\ Len(reqs') > Len(reqs) =>
              /\ Len(reqs') = Len(reqs) + 1
              /\ SubSeq(reqs', 1, Len(reqs)) = reqs
              /\ reqs'[Len(reqs')].out = Rejected(SocketClosed)
              /\ UNCHANGED <<sent, eventer, inflight, command_id, alive, sock>>]_vars
    /\ [](alive => []((~alive) => [](~alive)))
\* A request of each kind was refused on a session that was alive before.
C34_Witness ==
    /\ ~alive /\ socket_open.st = "resolved"
    /\ \A kind \in {"cmd", "nores", "interuser"} :
          \E i \in DOMAIN reqs : reqs[i].kind = kind /\ reqs[i].out = Rejected(SocketClosed)


\* ------------------------------------------------------------------
\* claims: the tunnel cache under overlapping calls
\* ------------------------------------------------------------------

\* C36: whatever the interleaving of non-unique file_explorer or shell calls
\* for one node, every alive tunnel one of them built is the tunnel the
\* cache holds for the node (so the calls that returned an alive tunnel
\* returned the same one, and the close fan-out reaches it).
C36_OneCachedTunnel ==
    \A c \in DOMAIN calls :
        /\ calls[c].kind \in {"files", "shell"}
        /\ ~calls[c].unique
        /\ calls[c].st = "returned"
        /\ tunnels[calls[c].tunnel].alive
        => Cached(calls[c].kind, calls[c].node, calls[c].regex) = calls[c].tunnel


\* ------------------------------------------------------------------
\* claims: the listeners of mkdir, rm and rename
\* ------------------------------------------------------------------
\* The requests a step took from the queue.
Dequeued == {k \in DOMAIN freqs : \E i \in DOMAIN request_queue : request_queue[i] = k}
               \ {k \in DOMAIN freqs : \E i \in DOMAIN request_queue' : request_queue'[i] = k}

\* C37: a server event handled by the listeners of mkdir, rm and rename
\* settles and dequeues at most one request, only a request whose own
\* listeners are registered, and never shifts an empty queue.
C37_OwnCompletion ==
    [][\A ev \in {"agentlog", "console"} :
          files_server_event(ev) =>
              /\ ~uncaught'
              /\ Cardinality(Dequeued) <= 1
              /\ \A k \in Dequeued :
                    /\ freqs[k].type = "mkdir"
                    /\ \E i \in DOMAIN files_listeners : files_listeners[i] = k]_vars


\* ------------------------------------------------------------------
\* claims: the request ids of a files tunnel
\* ------------------------------------------------------------------

\* C38: successive calls of the request-id generator of a files tunnel
\* return distinct values, the counter advancing by one per call: two
\* requests made one after the other carry different numbers, and two
\* requests of one kind that are in the queue together never have the same
\* id while fewer requests are queued than the counter has values.
C38_DistinctRequestIds ==
    /\ \A k \in DOMAIN freqs :
          k + 1 \in DOMAIN freqs /\ freqs[k].id # NoId /\ freqs[k + 1].id # NoId
              => freqs[k].id.num # freqs[k + 1].id.num
    /\ Len(request_queue) <= CmdMod =>
          \A i, j \in DOMAIN request_queue :
              i # j => freqs[request_queue[i]].id # freqs[request_queue[j]].id


\* ------------------------------------------------------------------
\* claims: an upload after its settlement
\* ------------------------------------------------------------------

\* C39: once an upload request has settled (success, uploaderror, or the
\* closing of the tunnel), no data frame and no uploaddone frame of that
\* upload is written to the relay socket.
C39_SettledUploadIsSilent ==
    [][\A k \in DOMAIN freqs :
          freqs[k].type = "upload" /\ freqs[k].finished.st # "pending" =>
              \A i \in (DOMAIN files_sent') \ (DOMAIN files_sent) :
                  /\ ~files_sent'[i].bin
                  /\ files_sent'[i] # UploadDone(freqs[k])]_vars


\* ------------------------------------------------------------------
\* claims: the encoding of upload chunks
\* ------------------------------------------------------------------
\* The rule of the receiver: one leading 0x00 byte is removed.
Unescape(f) == IF f # <<>> /\ f[1] = 0 THEN Tail(f) ELSE f

\* C40: the data frame written for a non-empty chunk never begins with
\* 0x7B, the receiver's rule applied to the frame gives back exactly the
\* chunk, and different chunks are sent as different frames.
C40_ChunkRoundTrip ==
    /\ Len(SentData) <= Len(freqs[1].chunks)
    /\ \A i \in DOMAIN SentData :
          /\ SentData[i].bytes # <<>>
          /\ SentData[i].bytes[1] # 123
          /\ Unescape(SentData[i].bytes) = freqs[1].chunks[i]
    /\ \A i, j \in DOMAIN SentData :
          freqs[1].chunks[i] # freqs[1].chunks[j] => SentData[i].bytes # SentData[j].bytes
\* Two different chunks were sent, one starting with 0x00 and sent with a
\* 0x00 in front, one sent as it is.
C40_Witness ==
    \E i, j \in DOMAIN SentData :
        /\ freqs[1].chunks[i][1] = 0 /\ Len(SentData[i].bytes) = Len(freqs[1].chunks[i]) + 1
        /\ freqs[1].chunks[j][1] = 65 /\ SentData[j].bytes = freqs[1].chunks[j]

====
